---- MODULE Spec2Model ----
(***************************************************************************)
(* Model of the analytical cores of the repository:                        *)
(*   - the sector view classifier of "Competing Developments Analysis"     *)
(*     (metric collection, min-max normalisation, scoring, merge of        *)
(*     contiguous sectors with the wraparound post-process);               *)
(*   - the acoustic propagation loop of "Road Traffic Noise Impact"        *)
(*     (energy accumulation over road segments on a sampling grid), its    *)
(*     traffic emission model and its facade exposure lookup;              *)
(*   - the location resolution (resolve_lot, resolve_query) with the       *)
(*     resolution and analysis loops of the multi-input scripts;           *)
(*   - the station label of the Driving / Walking Distance scripts.        *)
(* Real numbers are modelled exactly as reduced fractions <<num, den>>     *)
(* (ratios, normalised values, scores) and as integer decibels / integer   *)
(* energies (fixed-point tables for log10 and 10^x) in the acoustic part.  *)
(***************************************************************************)
EXTENDS Integers, Sequences, FiniteSets, TLC

VARIABLES
    pc,             \* position of the script
    SECTOR_SIZE,    \* wedge width W in degrees (evenly divides 360)
    df,             \* the sector table (pandas DataFrame), a sequence of rows
    merged,         \* the arc list: tuples <<start, end, view>>
    current_start,  \* running arc of the linear walk
    current_end,
    current_type,
    i,              \* index of the merge loop (1-based: the code's i + 1)
    pass,           \* 1: merge of the sector table, 2: merge re-run on the arc list
    first_run,      \* the arc list the first run produced
    VIEW_RADIUS,    \* radius of the sectors (0: degenerate wedges of zero area)
    parks,          \* green layer: a sequence of features (sets of area cells)
    water,          \* water layer
    buildings,      \* building layer
    nearby,         \* height layer: features [cells, HEIGHT_M]
    angle,          \* loop variable of METRIC COLLECTION
    sector_data,    \* rows collected so far
    roads,          \* road geometries: LineStrings and MultiLineStrings
    geom_i,         \* index of the next geometry of roads.geometry
    lines,          \* lines of the current geometry still to process
    noise_energy,   \* accumulated energy per grid point
    noise,          \* level per grid point, in dB
    body,           \* arrays of the last loop body: d, A_div, A_ground, A_barrier, L
    centroids,      \* centroids of the rows of the noise script's buildings
    geom_b,         \* index of the next building of the facade loop
    facade_levels,  \* facade exposure per building, a number or "nan"
    flow,           \* arguments of traffic_emission
    heavy_pct,      \*   (heavy share in percent)
    speed,
    emitted,        \* its return value, in tenths of a decibel
    script,         \* which script runs the location resolution
    INPUT_MODE,     \* "SINGLE" or "MULTIPLE"
    queries,        \* the identifiers, each with the provider's response to it
    q_i,            \* index of the next query of the resolution loop
    attempts,       \* requests sent so far, per query
    results,        \* resolved locations (Driving: results, Amenities: locations)
    res_i,          \* index of the next location of the analysis loop
    analysed,       \* queries whose per-location analysis ran to its end
    rendered,       \* queries for which a figure was drawn
    station,        \* one station record with its optional name fields
    station_label,  \* its label (the code's name), upper-cased
    view_texts,     \* the "<CLASS> VIEW" texts the draw loop put on the figure
    gdf_route,      \* the route handed to add_route_arrow: None or its rows
    color,          \* the colour handed to add_route_arrow
    arrow,          \* what add_route_arrow did: nothing, an arrow, or an error
    site_point,     \* the site point the place-label loop measures from
    labels,         \* the place-label table
    label_i,        \* index of the next row of the place-label loop
    placed,         \* anchor points of the labels placed so far
    place_texts     \* the texts drawn by the place-label loop

viewVars == <<pc, SECTOR_SIZE, df, merged, current_start, current_end,
              current_type, i, pass, first_run>>

sectorVars == <<VIEW_RADIUS, parks, water, buildings, nearby, angle, sector_data>>

noiseVars == <<roads, geom_i, lines, noise_energy, noise, body>>

facadeVars == <<centroids, geom_b, facade_levels>>

emissionVars == <<flow, heavy_pct, speed, emitted>>

resolveVars == <<script, INPUT_MODE, queries, q_i, attempts, results, res_i,
                 analysed, rendered>>

labelVars == <<station, station_label>>

plotVars == <<view_texts, gdf_route, color, arrow, site_point, labels, label_i,
              placed, place_texts>>

\* the variables of the merge, without the position of the script
mergeVars == <<SECTOR_SIZE, df, merged, current_start, current_end,
               current_type, i, pass, first_run>>

scriptVars == <<facadeVars, emissionVars, resolveVars, labelVars, plotVars>>

vars == <<viewVars, sectorVars, noiseVars, scriptVars>>

----------------------------------------------------------------------------
(* Bounds of the model *)

\* at most this many sectors (the code has 360 / 20 = 18)
MaxSectors == 4
\* raw metric levels are k / MaxRaw for k in 0..MaxRaw
MaxRaw == 2
\* the classified sector's raw metrics range over k / ScoreGrid, k in 0..ScoreGrid
ScoreGrid == 4
\* study radius in metres (the code has STUDY_RADIUS = 150)
StudyRadius == 12
\* at most this many road geometries in the study radius
MaxRoads == 2

----------------------------------------------------------------------------
(* Exact rational arithmetic on <<num, den>>, den > 0 *)

RECURSIVE GCD(_, _)
GCD(a, b) == IF b = 0 THEN a ELSE GCD(b, a % b)

Abs(x) == IF x < 0 THEN -x ELSE x

Reduce(f) ==
    LET g == GCD(Abs(f[1]), Abs(f[2]))
    IN  IF f[2] = 0 THEN f
        ELSE IF f[2] < 0 THEN <<(-f[1]) \div g, (-f[2]) \div g>>
        ELSE <<f[1] \div g, f[2] \div g>>

Frac(n, d) == Reduce(<<n, d>>)
Zero == <<0, 1>>
One == <<1, 1>>
FLeq(a, b) == a[1] * b[2] <= b[1] * a[2]
FLt(a, b) == a[1] * b[2] < b[1] * a[2]
FEq(a, b) == a[1] * b[2] = b[1] * a[2]
FSub(a, b) == Reduce(<<a[1] * b[2] - b[1] * a[2], a[2] * b[2]>>)
FMul(a, b) == Reduce(<<a[1] * b[1], a[2] * b[2]>>)
FDiv(a, b) == Reduce(<<a[1] * b[2], a[2] * b[1]>>)

Range(s) == {s[k] : k \in DOMAIN s}

----------------------------------------------------------------------------
(* NORMALIZATION *)

SeriesMax(series) ==
    CHOOSE x \in Range(series) : \A y \in Range(series) : FLeq(y, x)

SeriesMin(series) ==
    CHOOSE x \in Range(series) : \A y \in Range(series) : FLeq(x, y)

\* a variant that omits the guard for a constant series
normalize_noguard(series) ==
    [k \in DOMAIN series |->
        <<FSub(series[k], SeriesMin(series))[1]
            * FSub(SeriesMax(series), SeriesMin(series))[2],
          FSub(series[k], SeriesMin(series))[2]
            * FSub(SeriesMax(series), SeriesMin(series))[1]>>]

\* a variant that returns a constant series unchanged
normalize_keepconstant(series) ==
    IF FEq(FSub(SeriesMax(series), SeriesMin(series)), Zero)
    THEN series
    ELSE [k \in DOMAIN series |->
            FDiv(FSub(series[k], SeriesMin(series)),
                 FSub(SeriesMax(series), SeriesMin(series)))]

\* def normalize(series)
normalize(series) ==
    IF FEq(FSub(SeriesMax(series), SeriesMin(series)), Zero)
    THEN [k \in DOMAIN series |-> FMul(series[k], Zero)]
    ELSE [k \in DOMAIN series |->
            FDiv(FSub(series[k], SeriesMin(series)),
                 FSub(SeriesMax(series), SeriesMin(series)))]

Column(table, name) == [k \in DOMAIN table |-> table[k][name]]

\* df["green_n"] = normalize(df["green"]) ... df["density_n"] = normalize(df["building"])
NormalizeStep ==
    /\ pc = "normalize"
    /\ df' = [k \in DOMAIN df |->
                [start |-> df[k].start, end |-> df[k].end,
                 green |-> df[k].green, water |-> df[k].water,
                 building |-> df[k].building, avg_height |-> df[k].avg_height,
                 green_n |-> normalize(Column(df, "green"))[k],
                 water_n |-> normalize(Column(df, "water"))[k],
                 height_n |-> normalize(Column(df, "avg_height"))[k],
                 density_n |-> normalize(Column(df, "building"))[k]]]
    /\ pc' = "score"
    /\ UNCHANGED <<SECTOR_SIZE, merged, current_start, current_end,
                   current_type, i, pass, first_run,
                   sectorVars, noiseVars, scriptVars>>

----------------------------------------------------------------------------
(* SCORING *)

city_score(row) == FMul(row.height_n, row.density_n)
green_score(row) == row.green_n
water_score(row) == row.water_n
open_score(row) == FMul(FSub(One, row.density_n), FSub(One, row.height_n))

\* the columns handed to idxmax, in the order of the list in the code
ScoreColumns(row) ==
    << <<"green_score", green_score(row)>>,
       <<"water_score", water_score(row)>>,
       <<"city_score", city_score(row)>>,
       <<"open_score", open_score(row)>> >>

\* a variant that returns the last maximum instead of the first
idxmax_last(cols) ==
    LET k == CHOOSE k \in DOMAIN cols :
                /\ \A j \in DOMAIN cols : FLeq(cols[j][2], cols[k][2])
                /\ \A j \in DOMAIN cols : j > k => ~FEq(cols[j][2], cols[k][2])
    IN  cols[k][1]

\* DataFrame.idxmax(axis=1): the label of the first column holding the maximum
idxmax(cols) ==
    LET k == CHOOSE k \in DOMAIN cols :
                /\ \A j \in DOMAIN cols : FLeq(cols[j][2], cols[k][2])
                /\ \A j \in DOMAIN cols : j < k => ~FEq(cols[j][2], cols[k][2])
    IN  cols[k][1]

\* .str.replace("_score", "").str.upper()
ViewName(label) ==
    CASE label = "green_score" -> "GREEN"
      [] label = "water_score" -> "WATER"
      [] label = "city_score" -> "CITY"
      [] label = "open_score" -> "OPEN"

Views == {"GREEN", "WATER", "CITY", "OPEN"}

ScoreStep ==
    /\ pc = "score"
    /\ df' = [k \in DOMAIN df |->
                [start |-> df[k].start, end |-> df[k].end,
                 green |-> df[k].green, water |-> df[k].water,
                 building |-> df[k].building, avg_height |-> df[k].avg_height,
                 green_n |-> df[k].green_n, water_n |-> df[k].water_n,
                 height_n |-> df[k].height_n, density_n |-> df[k].density_n,
                 city_score |-> city_score(df[k]),
                 green_score |-> green_score(df[k]),
                 water_score |-> water_score(df[k]),
                 open_score |-> open_score(df[k]),
                 view |-> ViewName(idxmax(ScoreColumns(df[k])))]]
    /\ pc' = "merge_init"
    /\ UNCHANGED <<SECTOR_SIZE, merged, current_start, current_end,
                   current_type, i, pass, first_run,
                   sectorVars, noiseVars, scriptVars>>

----------------------------------------------------------------------------
(* MERGE CONTINUOUS SECTORS (WRAP SAFE) *)

\* merged = []; current_* = df.iloc[0][...]  (IndexError on an empty table)
MergeInit ==
    /\ pc = "merge_init"
    /\ IF Len(df) = 0
       THEN /\ pc' = "error"
            /\ merged' = <<>>
            /\ UNCHANGED <<current_start, current_end, current_type, i>>
       ELSE /\ merged' = <<>>
            /\ current_start' = df[1].start
            /\ current_end' = df[1].end
            /\ current_type' = df[1].view
            /\ i' = 2
            /\ pc' = "merge_loop"
    /\ UNCHANGED <<SECTOR_SIZE, df, pass, first_run,
                   sectorVars, noiseVars, scriptVars>>

\* a variant of the loop body that does not extend the running arc
MergeStep_noextend ==
    /\ pc = "merge_loop"
    /\ i <= Len(df)
    /\ IF df[i].view = current_type
       THEN UNCHANGED <<merged, current_start, current_end, current_type>>
       ELSE /\ merged' = Append(merged, <<current_start, current_end, current_type>>)
            /\ current_start' = df[i].start
            /\ current_end' = df[i].end
            /\ current_type' = df[i].view
    /\ i' = i + 1
    /\ UNCHANGED <<pc, SECTOR_SIZE, df, pass, first_run, sectorVars, noiseVars, scriptVars>>

\* a variant of the loop body that closes the running arc at every sector
MergeStep_split ==
    /\ pc = "merge_loop"
    /\ i <= Len(df)
    /\ merged' = Append(merged, <<current_start, current_end, current_type>>)
    /\ current_start' = df[i].start
    /\ current_end' = df[i].end
    /\ current_type' = df[i].view
    /\ i' = i + 1
    /\ UNCHANGED <<pc, SECTOR_SIZE, df, pass, first_run,
                   sectorVars, noiseVars, scriptVars>>

\* one iteration of: for i in range(1, len(df))
MergeStep ==
    /\ pc = "merge_loop"
    /\ i <= Len(df)
    /\ IF df[i].view = current_type
       THEN /\ current_end' = df[i].end
            /\ UNCHANGED <<merged, current_start, current_type>>
       ELSE /\ merged' = Append(merged, <<current_start, current_end, current_type>>)
            /\ current_start' = df[i].start
            /\ current_end' = df[i].end
            /\ current_type' = df[i].view
    /\ i' = i + 1
    /\ UNCHANGED <<pc, SECTOR_SIZE, df, pass, first_run,
                   sectorVars, noiseVars, scriptVars>>

\* merged.append((current_start, current_end, current_type)) after the loop
MergeClose ==
    /\ pc = "merge_loop"
    /\ i > Len(df)
    /\ merged' = Append(merged, <<current_start, current_end, current_type>>)
    /\ pc' = "wrap"
    /\ UNCHANGED <<SECTOR_SIZE, df, current_start, current_end, current_type,
                   i, pass, first_run,
                   sectorVars, noiseVars, scriptVars>>

\* list.pop(): the list without its last entry
Pop(list) == SubSeq(list, 1, Len(list) - 1)

\* a variant of the post-process that fuses but keeps the last entry
WrapResult_nopop(list) ==
    IF list[1][3] = list[Len(list)][3]
    THEN [list EXCEPT ![1] = <<list[Len(list)][1], list[1][2], list[1][3]>>]
    ELSE list

\* if merged[0][2] == merged[-1][2]: merged[0] = (...); merged.pop()
WrapResult(list) ==
    IF list[1][3] = list[Len(list)][3]
    THEN Pop([list EXCEPT ![1] = <<list[Len(list)][1], list[1][2], list[1][3]>>])
    ELSE list

WrapPost ==
    /\ pc = "wrap"
    /\ merged' = WrapResult(merged)
    /\ pc' = "done"
    /\ UNCHANGED <<SECTOR_SIZE, df, current_start, current_end, current_type,
                   i, pass, first_run,
                   sectorVars, noiseVars, scriptVars>>

\* the merge procedure run a second time, each arc of the first run taken as a
\* row (start, end, view)
Remerge ==
    /\ pc = "done"
    /\ pass = 1
    /\ df' = [k \in DOMAIN merged |->
                [start |-> merged[k][1], end |-> merged[k][2], view |-> merged[k][3]]]
    /\ first_run' = merged
    /\ pass' = 2
    /\ pc' = "merge_init"
    /\ UNCHANGED <<SECTOR_SIZE, merged, current_start, current_end,
                   current_type, i,
                   sectorVars, noiseVars, scriptVars>>

----------------------------------------------------------------------------
(* DRAW: one wedge per arc, and a text on the arc                          *)

\* f"{view_type} VIEW"
ViewText(view_type) ==
    CASE view_type = "GREEN" -> "GREEN VIEW"
      [] view_type = "WATER" -> "WATER VIEW"
      [] view_type = "CITY" -> "CITY VIEW"
      [] view_type = "OPEN" -> "OPEN VIEW"

\* if (end - start) >= SECTOR_SIZE
Labelled(arc) == (arc[2] - arc[1]) >= SECTOR_SIZE

\* the text of one arc, at mid_angle = (start + end) / 2
ArcText(arc) == [mid_angle |-> Frac(arc[1] + arc[2], 2), text |-> ViewText(arc[3])]

\* for start, end, view_type in merged: ...
DrawArcs ==
    /\ pc = "done"
    /\ pass = 1
    /\ LET shown == SelectSeq(merged, Labelled)
       IN  view_texts' = [k \in DOMAIN shown |-> ArcText(shown[k])]
    /\ pc' = "drawn"
    /\ UNCHANGED <<mergeVars, sectorVars, noiseVars, facadeVars, emissionVars,
                   resolveVars, labelVars, gdf_route, color, arrow, site_point,
                   labels, label_i, placed, place_texts>>

----------------------------------------------------------------------------
(* The sector table as METRIC COLLECTION leaves it *)

SectorCounts == {n \in 1..MaxSectors : 360 % n = 0}

\* raw metrics of one sector: [green, water, building, avg_height], each a
\* level k / MaxRaw
RawProfiles ==
    { <<Zero, Zero, Zero, Zero>>,                       \* nothing in the sector
      <<One, Zero, Zero, Zero>>,                        \* all green
      <<Zero, One, Zero, Zero>>,                        \* all water
      <<Zero, Zero, One, One>>,                         \* dense and tall
      <<Zero, Zero, One, Zero>>,                        \* dense and low
      <<Frac(1, MaxRaw), Frac(1, MaxRaw), Frac(1, MaxRaw), Frac(1, MaxRaw)>> }

\* the noise script has not run
NoiseIdle ==
    /\ roads = <<>>
    /\ geom_i = 1
    /\ lines = <<>>
    /\ noise_energy = <<>>
    /\ noise = <<>>
    /\ body = <<>>

\* Traffic assumptions of the noise script
TRAFFIC_FLOW == 1200
\* HEAVY_PERCENT = 0.12, in percent
HEAVY_PERCENT == 12
SPEED == 40

\* the facade loop has not run
FacadeIdle ==
    /\ centroids = <<>>
    /\ geom_b = 1
    /\ facade_levels = <<>>

\* traffic_emission is not being evaluated for another input
EmissionIdle ==
    /\ flow = TRAFFIC_FLOW
    /\ heavy_pct = HEAVY_PERCENT
    /\ speed = SPEED
    /\ emitted = 0

\* no location resolution is running
ResolveIdle ==
    /\ script = "none"
    /\ INPUT_MODE = "SINGLE"
    /\ queries = <<>>
    /\ q_i = 1
    /\ attempts = <<>>
    /\ results = <<>>
    /\ res_i = 1
    /\ analysed = <<>>
    /\ rendered = <<>>

\* no station label is being computed
LabelIdle ==
    /\ station = "none"
    /\ station_label = "none"

\* nothing has been drawn
PlotIdle ==
    /\ view_texts = <<>>
    /\ gdf_route = <<>>
    /\ color = "none"
    /\ arrow = <<>>
    /\ site_point = <<0, 0>>
    /\ labels = <<>>
    /\ label_i = 1
    /\ placed = <<>>
    /\ place_texts = <<>>

\* the layers are not read once the sector table exists
SectorIdle ==
    /\ VIEW_RADIUS = 360
    /\ parks = <<>>
    /\ water = <<>>
    /\ buildings = <<>>
    /\ nearby = <<>>
    /\ angle = 360
    /\ sector_data = <<>>

SectorRow(k, W, p) ==
    [start |-> (k - 1) * W, end |-> k * W,
     green |-> p[1], water |-> p[2], building |-> p[3], avg_height |-> p[4]]

InitView ==
    /\ \E n \in SectorCounts :
         /\ SECTOR_SIZE = 360 \div n
         /\ \E prof \in [1..n -> RawProfiles] :
              df = [k \in 1..n |-> SectorRow(k, 360 \div n, prof[k])]
    /\ pc = "normalize"
    /\ merged = <<>>
    /\ current_start = 0
    /\ current_end = 0
    /\ current_type = "NONE"
    /\ i = 0
    /\ pass = 1
    /\ first_run = <<>>
    /\ SectorIdle
    /\ NoiseIdle
    /\ FacadeIdle
    /\ EmissionIdle
    /\ ResolveIdle
    /\ LabelIdle
    /\ PlotIdle

NextView ==
    \/ NormalizeStep
    \/ ScoreStep
    \/ MergeInit
    \/ MergeStep
    \/ MergeClose
    \/ WrapPost
    \/ Remerge
    \/ DrawArcs

SpecView == InitView /\ [][NextView]_vars

(* Three sectors of 120 degrees: two take the extreme raw values 0 or 1 in   *)
(* every metric, the third takes any grid value in each metric, so that its  *)
(* normalised values range over the whole grid of [0,1]^4.                   *)

GridLevels == {Frac(k, ScoreGrid) : k \in 0..ScoreGrid}

InitClassify ==
    /\ SECTOR_SIZE = 120
    /\ \E lo \in {Zero, One}, hi \in {Zero, One},
          g \in GridLevels, w \in GridLevels, b \in GridLevels, h \in GridLevels :
         df = << SectorRow(1, 120, <<lo, lo, lo, lo>>),
                 SectorRow(2, 120, <<hi, hi, hi, hi>>),
                 SectorRow(3, 120, <<g, w, b, h>>) >>
    /\ pc = "normalize"
    /\ merged = <<>>
    /\ current_start = 0
    /\ current_end = 0
    /\ current_type = "NONE"
    /\ i = 0
    /\ pass = 1
    /\ first_run = <<>>
    /\ SectorIdle
    /\ NoiseIdle
    /\ FacadeIdle
    /\ EmissionIdle
    /\ ResolveIdle
    /\ LabelIdle
    /\ PlotIdle

NextClassify ==
    \/ NormalizeStep
    \/ ScoreStep

SpecClassify == InitClassify /\ [][NextClassify]_vars

----------------------------------------------------------------------------
(* SECTOR FUNCTION and METRIC COLLECTION *)
(* Areas are counted in unit cells: a wedge of positive radius holds two     *)
(* cells <<k, 1>>, <<k, 2>>, a feature is the set of cells it covers.        *)

\* create_sector(center, radius, start_angle, end_angle)
create_sector(radius, start_angle, end_angle) ==
    IF radius = 0 \/ start_angle = end_angle
    THEN {}
    ELSE {<<(start_angle \div SECTOR_SIZE) + 1, j>> : j \in 1..2}

Area(cells) == Cardinality(cells)

\* layer.intersection(sector).area.sum(): one area per feature, added up
RECURSIVE IntersectionAreaSum(_, _)
IntersectionAreaSum(layer, sector) ==
    IF layer = <<>> THEN 0
    ELSE Area(Head(layer) \cap sector) + IntersectionAreaSum(Tail(layer), sector)

\* nearby[nearby.intersects(sector)]
Intersecting(layer, sector) ==
    SelectSeq(layer, LAMBDA f : f.cells \cap sector # {})

RECURSIVE HeightSum(_)
HeightSum(layer) ==
    IF layer = <<>> THEN 0 ELSE Head(layer).HEIGHT_M + HeightSum(Tail(layer))

\* sector_heights["HEIGHT_M"].mean()
HeightMean(layer) == Frac(HeightSum(layer), Len(layer))

\* x / sector_area if sector_area else 0
RatioOf(area, sector_area) ==
    IF sector_area # 0 THEN Frac(area, sector_area) ELSE Zero

\* the row appended for the wedge starting at angle a
CollectedRow(a) ==
    LET start == a
        end == a + SECTOR_SIZE
        sector == create_sector(VIEW_RADIUS, start, end)
        sector_area == Area(sector)
        green_area == IF Len(parks) # 0 THEN IntersectionAreaSum(parks, sector) ELSE 0
        water_area == IF Len(water) # 0 THEN IntersectionAreaSum(water, sector) ELSE 0
        building_area ==
            IF Len(buildings) # 0 THEN IntersectionAreaSum(buildings, sector) ELSE 0
        sector_heights == Intersecting(nearby, sector)
    IN  [start |-> start,
         end |-> end,
         green |-> RatioOf(green_area, sector_area),
         water |-> RatioOf(water_area, sector_area),
         building |-> RatioOf(building_area, sector_area),
         avg_height |-> IF Len(sector_heights) # 0
                        THEN HeightMean(sector_heights) ELSE Zero]

\* a variant of the loop that steps by two wedge widths
CollectStep_skip ==
    /\ pc = "collect"
    /\ angle < 360
    /\ sector_data' = Append(sector_data, CollectedRow(angle))
    /\ angle' = angle + 2 * SECTOR_SIZE
    /\ UNCHANGED <<viewVars, VIEW_RADIUS, parks, water, buildings, nearby, noiseVars, scriptVars>>

\* one iteration of: for angle in range(0, 360, SECTOR_SIZE)
CollectStep ==
    /\ pc = "collect"
    /\ angle < 360
    /\ sector_data' = Append(sector_data, CollectedRow(angle))
    /\ angle' = angle + SECTOR_SIZE
    /\ UNCHANGED <<viewVars, VIEW_RADIUS, parks, water, buildings, nearby, noiseVars, scriptVars>>

\* df = pd.DataFrame(sector_data)
BuildFrame ==
    /\ pc = "collect"
    /\ angle >= 360
    /\ df' = sector_data
    /\ pc' = "normalize"
    /\ UNCHANGED <<SECTOR_SIZE, merged, current_start, current_end,
                   current_type, i, pass, first_run, sectorVars, noiseVars, scriptVars>>

\* the shapes a feature may take among n wedges: a whole wedge, half of the
\* first wedge, the whole circle
FeatureShapes(n) ==
    {{<<k, 1>>, <<k, 2>>} : k \in 1..n}
        \cup {{<<1, 1>>}}
        \cup {{<<k, j>> : k \in 1..n, j \in 1..2}}

\* layers of at most two features, which may overlap or coincide
LayersUpTo2(n) ==
    {<<>>} \cup {<<f>> : f \in FeatureShapes(n)}
           \cup {<<f, g>> : f \in FeatureShapes(n), g \in FeatureShapes(n)}

LayersUpTo1(n) == {<<>>} \cup {<<f>> : f \in FeatureShapes(n)}

\* landsd rows kept by HEIGHT_M > 5
HeightLayers(n) ==
    {<<>>} \cup {<<[cells |-> f, HEIGHT_M |-> h]>> : f \in FeatureShapes(n), h \in {6, 30}}

InitSector ==
    /\ \E n \in SectorCounts :
         /\ SECTOR_SIZE = 360 \div n
         /\ parks \in LayersUpTo2(n)
         /\ water \in LayersUpTo1(n)
         /\ buildings \in LayersUpTo1(n)
         /\ nearby \in HeightLayers(n)
    /\ VIEW_RADIUS \in {0, 360}
    /\ angle = 0
    /\ sector_data = <<>>
    /\ pc = "collect"
    /\ df = <<>>
    /\ merged = <<>>
    /\ current_start = 0
    /\ current_end = 0
    /\ current_type = "NONE"
    /\ i = 0
    /\ pass = 1
    /\ first_run = <<>>
    /\ NoiseIdle
    /\ FacadeIdle
    /\ EmissionIdle
    /\ ResolveIdle
    /\ LabelIdle
    /\ PlotIdle

NextSector ==
    \/ CollectStep
    \/ BuildFrame

SpecSector == InitSector /\ [][NextSector]_vars

----------------------------------------------------------------------------
(* Road Traffic Noise Impact: GRID and PROPAGATION MODEL                     *)
(* Lengths are whole metres, levels whole decibels, energies whole units:    *)
(* log10 and 10^x are fixed-point tables, distances are rounded.             *)

GRID_RES == 6
GROUND_ABSORPTION_TENTHS == 6
A_reflect == -2
BarrierLoss == 8
BarrierBuffer == 5
\* the exponent of the epsilon 1e-9 added before the final log10
EpsExponent == -9
\* site_polygon.bounds: the site is the rectangle (minx, miny, maxx, maxy)
SiteBounds == <<0, 0, 6, 6>>

\* site_polygon.buffer(STUDY_RADIUS).bounds
StudyBounds ==
    <<SiteBounds[1] - StudyRadius, SiteBounds[2] - StudyRadius,
      SiteBounds[3] + StudyRadius, SiteBounds[4] + StudyRadius>>

\* np.arange(lo, hi, step)
Arange(lo, hi, step) ==
    {lo + k * step : k \in {k \in 0..(hi - lo) : lo + k * step < hi}}

x_vals == Arange(StudyBounds[1], StudyBounds[3], GRID_RES)
y_vals == Arange(StudyBounds[2], StudyBounds[4], GRID_RES)

\* X, Y = np.meshgrid(x_vals, y_vals): the grid points <<x, y>>
GridPoints == x_vals \X y_vals

\* np.zeros_like(X) with every cell set to one instead
OnesLike(grid) == [c \in grid |-> 1]

\* np.zeros_like(X)
ZerosLike(grid) == [c \in grid |-> 0]

\* round(100 * log10(n)) for n in 1..64
Log10x100 ==
    <<0, 30, 48, 60, 70, 78, 85, 90, 95, 100, 104, 108, 111, 115, 118, 120,
      123, 126, 128, 130, 132, 134, 136, 138, 140, 141, 143, 145, 146, 148,
      149, 151, 152, 153, 154, 156, 157, 158, 159, 160, 161, 162, 163, 164,
      165, 166, 167, 168, 169, 170, 171, 172, 172, 173, 174, 175, 176, 176,
      177, 178, 179, 179, 180, 181>>

\* round(1000 * 10^(k/10)) for k in 0..9
Pow10Mantissa == <<1000, 1259, 1585, 1995, 2512, 3162, 3981, 5012, 6310, 7943>>

RECURSIVE TenTo(_)
TenTo(k) == IF k = 0 THEN 1 ELSE 10 * TenTo(k - 1)

\* 10 ** (L / 10), rounded to a whole energy unit
Pow10dB(L) ==
    IF L < 0 THEN (IF L >= -3 THEN 1 ELSE 0)
    ELSE IF L \div 10 >= 3
         THEN Pow10Mantissa[(L % 10) + 1] * TenTo((L \div 10) - 3)
         ELSE (Pow10Mantissa[(L % 10) + 1] * TenTo(L \div 10) + 500) \div 1000

\* 10 * np.log10(e + 1e-9): the epsilon decides only when e = 0
Level(e) ==
    IF e = 0 THEN 10 * EpsExponent
    ELSE CHOOSE L \in 0..92 : Pow10dB(L) <= e /\ e < Pow10dB(L + 1)

Max2(a, b) == IF a >= b THEN a ELSE b
Min2(a, b) == IF a <= b THEN a ELSE b

(* TRAFFIC EMISSION MODEL: levels in tenths of a decibel, energies in whole  *)
(* units, 10^x from a table of a hundred steps per decade.                   *)

\* round(10000 * 10^(k/100)) for k in 0..99
Pow10Centi ==
    <<10000, 10233, 10471, 10715, 10965, 11220, 11482, 11749, 12023, 12303,
      12589, 12882, 13183, 13490, 13804, 14125, 14454, 14791, 15136, 15488,
      15849, 16218, 16596, 16982, 17378, 17783, 18197, 18621, 19055, 19498,
      19953, 20417, 20893, 21380, 21878, 22387, 22909, 23442, 23988, 24547,
      25119, 25704, 26303, 26915, 27542, 28184, 28840, 29512, 30200, 30903,
      31623, 32359, 33113, 33884, 34674, 35481, 36308, 37154, 38019, 38905,
      39811, 40738, 41687, 42658, 43652, 44668, 45709, 46774, 47863, 48978,
      50119, 51286, 52481, 53703, 54954, 56234, 57544, 58884, 60256, 61660,
      63096, 64565, 66069, 67608, 69183, 70795, 72444, 74131, 75858, 77625,
      79433, 81283, 83176, 85114, 87096, 89125, 91201, 93325, 95499, 97724>>

\* 10 ** (L / 10) for a level L >= 0 in tenths of a decibel
Pow10Tenths(L) ==
    IF L \div 100 >= 4
    THEN Pow10Centi[(L % 100) + 1] * TenTo((L \div 100) - 4)
    ELSE (Pow10Centi[(L % 100) + 1] * TenTo(L \div 100) + 5000) \div 10000

\* 10 * np.log10(n) in tenths of a decibel, for 1 <= n < 10^9: the decade e
\* of n, then the table step whose power is nearest to n
Log10Tenths(n) ==
    LET e == CHOOSE e \in 0..8 : TenTo(e) <= n /\ n < TenTo(e + 1)
        below(k) == IF e >= 4
                    THEN Pow10Centi[k + 1] * TenTo(e - 4) <= n
                    ELSE Pow10Centi[k + 1] <= n * TenTo(4 - e)
        k == CHOOSE k \in 0..99 : below(k) /\ (k = 99 \/ ~below(k + 1))
        gap(j) == IF j = 100
                  THEN IF e >= 4 THEN TenTo(e - 3) - n
                                 ELSE 10 * TenTo(4) - n * TenTo(4 - e)
                  ELSE IF e >= 4 THEN Abs(Pow10Centi[j + 1] * TenTo(e - 4) - n)
                                 ELSE Abs(Pow10Centi[j + 1] - n * TenTo(4 - e))
    IN  100 * e + (IF gap(k + 1) < gap(k) THEN k + 1 ELSE k)

\* the vehicles per hour of one class: flow * share, the share in percent
ClassFlow(f, percent) == (f * percent + 50) \div 100

\* 27.7 + 10*log10(flow*(1-heavy_pct)) + 0.02*speed, in tenths of a decibel
L_light(f, h, v) == 277 + Log10Tenths(ClassFlow(f, 100 - h)) + (2 * v + 5) \div 10

\* 23.1 + 10*log10(flow*heavy_pct) + 0.08*speed, in tenths of a decibel
L_heavy(f, h, v) == 231 + Log10Tenths(ClassFlow(f, h)) + (8 * v + 5) \div 10

\* 10 ** (L_class / 10); a class without vehicles has level -inf, energy 0
ClassEnergy(count, level) == IF count = 0 THEN 0 ELSE Pow10Tenths(level)

\* a variant that returns 20 * log10 of the energy sum
traffic_emission_amplitude(f, h, v) ==
    2 * Log10Tenths(ClassEnergy(ClassFlow(f, 100 - h), L_light(f, h, v))
                    + ClassEnergy(ClassFlow(f, h), L_heavy(f, h, v)))

\* def traffic_emission(flow, heavy_pct, speed), in tenths of a decibel
traffic_emission(f, h, v) ==
    Log10Tenths(ClassEnergy(ClassFlow(f, 100 - h), L_light(f, h, v))
                + ClassEnergy(ClassFlow(f, h), L_heavy(f, h, v)))

\* L_source = traffic_emission(TRAFFIC_FLOW, HEAVY_PERCENT, SPEED), rounded
\* to the whole decibels of the propagation model
L_source == (traffic_emission(TRAFFIC_FLOW, HEAVY_PERCENT, SPEED) + 5) \div 10

\* the inputs traffic_emission is evaluated on
Flows == {300, 600, 1200, 2400}
HeavyShares == {0, 5, 12, 20, 50}
Speeds == {30, 40, 50, 80, 110}

\* the call of traffic_emission
Emit ==
    /\ pc = "emission"
    /\ emitted' = traffic_emission(flow, heavy_pct, speed)
    /\ pc' = "emitted"
    /\ UNCHANGED <<mergeVars, sectorVars, noiseVars, facadeVars, resolveVars,
                   labelVars, plotVars, flow, heavy_pct, speed>>

\* the whole number nearest to sqrt(q)
RoundSqrt(q) ==
    LET r == CHOOSE r \in 0..q : r * r <= q /\ q < (r + 1) * (r + 1)
    IN  IF q - r * r > r THEN r + 1 ELSE r

\* line.distance(Point(xx, yy)) for an axis-parallel line [x1, y1, x2, y2]
Distance(line, pt) ==
    LET dx == Max2(Max2(Min2(line.x1, line.x2) - pt[1], 0),
                   pt[1] - Max2(line.x1, line.x2))
        dy == Max2(Max2(Min2(line.y1, line.y2) - pt[2], 0),
                   pt[2] - Max2(line.y1, line.y2))
    IN  RoundSqrt(dx * dx + dy * dy)

\* a variant of A_div with the offset 2 in the logarithm's argument
A_div_offset2(d) == (20 * Log10x100[d + 2] + 50) \div 100

\* A_div = 20 * log10(d + 1)
A_div(d) == (20 * Log10x100[d + 1] + 50) \div 100

\* A_ground = GROUND_ABSORPTION * 5 * log10(d + 1)
A_ground(d) == (GROUND_ABSORPTION_TENTHS * 5 * Log10x100[d + 1] + 500) \div 1000

\* site_polygon.buffer(5), as the rectangle grown by 5 m, in doubled coordinates
BarrierRect2 ==
    <<2 * (SiteBounds[1] - BarrierBuffer), 2 * (SiteBounds[2] - BarrierBuffer),
      2 * (SiteBounds[3] + BarrierBuffer), 2 * (SiteBounds[4] + BarrierBuffer)>>

\* (line.centroid.x, line.centroid.y), doubled
Centroid2(line) == <<line.x1 + line.x2, line.y1 + line.y2>>

\* rect.intersects(LineString([p, q])): the boxes overlap and the corners of
\* the rectangle do not all lie strictly on one side of the line through p, q
SegmentMeetsRect(p, q, rect) ==
    LET corners == {<<rect[1], rect[2]>>, <<rect[1], rect[4]>>,
                    <<rect[3], rect[2]>>, <<rect[3], rect[4]>>}
        side(c) == (q[1] - p[1]) * (c[2] - p[2]) - (q[2] - p[2]) * (c[1] - p[1])
    IN  /\ Max2(p[1], q[1]) >= rect[1]
        /\ Min2(p[1], q[1]) <= rect[3]
        /\ Max2(p[2], q[2]) >= rect[2]
        /\ Min2(p[2], q[2]) <= rect[4]
        /\ ~(\A c \in corners : side(c) > 0)
        /\ ~(\A c \in corners : side(c) < 0)

\* A_barrier = np.where(site_polygon.buffer(5).intersects(...), 8, 0)
A_barrier(line, pt) ==
    IF SegmentMeetsRect(Centroid2(line), <<2 * pt[1], 2 * pt[2]>>, BarrierRect2)
    THEN BarrierLoss ELSE 0

\* a variant of L that subtracts the reflection term
SourceLevel_reflectloss(line, pt) ==
    L_source - A_div(Distance(line, pt)) - A_ground(Distance(line, pt))
        - A_barrier(line, pt) - A_reflect

\* L = L_source - A_div - A_ground - A_barrier + A_reflect
SourceLevel(line, pt) ==
    L_source - A_div(Distance(line, pt)) - A_ground(Distance(line, pt))
        - A_barrier(line, pt) + A_reflect

\* a variant in which a cell behind the barrier receives nothing
LineEnergy_shadow(line, pt) ==
    IF A_barrier(line, pt) > 0 THEN 0 ELSE Pow10dB(SourceLevel(line, pt))

\* 10 ** (L / 10) at one grid point
LineEnergy(line, pt) == Pow10dB(SourceLevel(line, pt))

\* the arrays the loop body computes for one line, over the grid
LoopBody(line) ==
    [line |-> line,
     d |-> [c \in GridPoints |-> Distance(line, c)],
     A_div |-> [c \in GridPoints |-> A_div(Distance(line, c))],
     A_ground |-> [c \in GridPoints |-> A_ground(Distance(line, c))],
     A_barrier |-> [c \in GridPoints |-> A_barrier(line, c)],
     L |-> [c \in GridPoints |-> SourceLevel(line, c)]]

\* lines = geom.geoms if MultiLineString else [geom]
LinesOf(geom) ==
    IF geom.geom_type = "MultiLineString" THEN geom.geoms ELSE <<geom>>

\* the head of: for geom in roads.geometry
GeomStep ==
    /\ pc = "propagate"
    /\ lines = <<>>
    /\ geom_i <= Len(roads)
    /\ lines' = LinesOf(roads[geom_i])
    /\ geom_i' = geom_i + 1
    /\ UNCHANGED <<viewVars, sectorVars, scriptVars, roads, noise_energy, noise, body>>

\* a variant of the loop body that assigns instead of accumulating
LineStep_overwrite ==
    /\ pc = "propagate"
    /\ lines # <<>>
    /\ body' = LoopBody(Head(lines))
    /\ noise_energy' = [c \in DOMAIN noise_energy |-> LineEnergy(Head(lines), c)]
    /\ lines' = Tail(lines)
    /\ UNCHANGED <<viewVars, sectorVars, scriptVars, roads, geom_i, noise>>

\* the body of: for line in lines  (noise_energy += 10 ** (L / 10))
LineStep ==
    /\ pc = "propagate"
    /\ lines # <<>>
    /\ body' = LoopBody(Head(lines))
    /\ noise_energy' = [c \in DOMAIN noise_energy |->
                            noise_energy[c] + LineEnergy(Head(lines), c)]
    /\ lines' = Tail(lines)
    /\ UNCHANGED <<viewVars, sectorVars, scriptVars, roads, geom_i, noise>>

\* noise = 10 * np.log10(noise_energy + 1e-9)
ComputeNoise ==
    /\ pc = "propagate"
    /\ lines = <<>>
    /\ geom_i > Len(roads)
    /\ noise' = [c \in DOMAIN noise_energy |-> Level(noise_energy[c])]
    /\ pc' = "noise_done"
    /\ UNCHANGED <<SECTOR_SIZE, df, merged, current_start, current_end,
                   current_type, i, pass, first_run, sectorVars,
                   scriptVars, roads, geom_i, lines, noise_energy, body>>

LineString(x1, y1, x2, y2) ==
    [geom_type |-> "LineString", x1 |-> x1, y1 |-> y1, x2 |-> x2, y2 |-> y2]

MultiLineString(parts) == [geom_type |-> "MultiLineString", geoms |-> parts]

\* a road north of the site, one east of it, one along the grid's west edge
RoadNorth == LineString(-6, 15, 12, 15)
RoadEast == LineString(14, 0, 14, 6)
RoadWest == LineString(-12, -12, -12, -6)

\* roads after the filter on LineString / MultiLineString
RoadGeoms ==
    {RoadNorth, RoadEast, RoadWest,
     MultiLineString(<<RoadNorth, RoadEast>>),
     MultiLineString(<<RoadWest, RoadNorth>>),
     MultiLineString(<<>>)}

RECURSIVE SeqsUpTo(_, _)
SeqsUpTo(S, n) ==
    IF n = 0 THEN {<<>>}
    ELSE SeqsUpTo(S, n - 1)
            \cup {Append(q, x) : q \in {q \in SeqsUpTo(S, n - 1) : Len(q) = n - 1}, x \in S}

ViewIdle ==
    /\ SECTOR_SIZE = 20
    /\ df = <<>>
    /\ merged = <<>>
    /\ current_start = 0
    /\ current_end = 0
    /\ current_type = "NONE"
    /\ i = 0
    /\ pass = 1
    /\ first_run = <<>>

InitNoise ==
    /\ roads \in SeqsUpTo(RoadGeoms, MaxRoads)
    /\ geom_i = 1
    /\ lines = <<>>
    /\ noise_energy = ZerosLike(GridPoints)
    /\ noise = <<>>
    /\ body = <<>>
    /\ pc = "propagate"
    /\ ViewIdle
    /\ SectorIdle
    /\ FacadeIdle
    /\ EmissionIdle
    /\ ResolveIdle
    /\ LabelIdle
    /\ PlotIdle

NextNoise ==
    \/ GeomStep
    \/ LineStep
    \/ ComputeNoise

SpecNoise == InitNoise /\ [][NextNoise]_vars

(* BUILDING FACADE EXPOSURE: the loop over the buildings after the            *)
(* propagation loop; a building is known by its centroid.                    *)

\* at most this many buildings in the study radius
MaxBuildings == 2

\* (np.abs(X-centroid.x) <= GRID_RES) & (np.abs(Y-centroid.y) <= GRID_RES):
\* a variant of the mask with closed bounds
Mask_closed(centroid) ==
    {c \in GridPoints : /\ Abs(c[1] - centroid[1]) <= GRID_RES
                        /\ Abs(c[2] - centroid[2]) <= GRID_RES}

Mask_wide(centroid) ==
    {c \in GridPoints : /\ Abs(c[1] - centroid[1]) < 2 * GRID_RES
                        /\ Abs(c[2] - centroid[2]) < 2 * GRID_RES}

\* (np.abs(X-centroid.x) < GRID_RES) & (np.abs(Y-centroid.y) < GRID_RES)
Mask(centroid) ==
    {c \in GridPoints : /\ Abs(c[1] - centroid[1]) < GRID_RES
                        /\ Abs(c[2] - centroid[2]) < GRID_RES}

RECURSIVE CellSum(_, _)
CellSum(S, arr) ==
    IF S = {} THEN 0
    ELSE LET c == CHOOSE c \in S : TRUE
         IN  arr[c] + CellSum(S \ {c}, arr)

\* np.mean(noise[mask]): the exact mean, NaN for an empty selection
MaskedMean(arr, S) ==
    IF S = {} THEN "nan" ELSE Frac(CellSum(S, arr), Cardinality(S))

\* one iteration of: for geom in buildings.geometry
FacadeStep ==
    /\ pc = "noise_done"
    /\ geom_b <= Len(centroids)
    /\ facade_levels' = Append(facade_levels,
                               MaskedMean(noise, Mask(centroids[geom_b])))
    /\ geom_b' = geom_b + 1
    /\ UNCHANGED <<viewVars, sectorVars, noiseVars, centroids, emissionVars,
                   resolveVars, labelVars, plotVars>>

\* buildings["facade_db"] = facade_levels
AttachFacade ==
    /\ pc = "noise_done"
    /\ geom_b > Len(centroids)
    /\ pc' = "facade_done"
    /\ UNCHANGED <<mergeVars, sectorVars, noiseVars, facadeVars, emissionVars,
                   resolveVars, labelVars, plotVars>>

SetMin(S) == CHOOSE x \in S : \A y \in S : x <= y
SetMax(S) == CHOOSE x \in S : \A y \in S : x >= y

\* centroid abscissas around the two ends of the grid's x values
CentroidXs ==
    {SetMin(x_vals) - GRID_RES, SetMin(x_vals) - GRID_RES + 1, SetMin(x_vals) - 1,
     SetMin(x_vals) + 3,
     SetMax(x_vals) + 1, SetMax(x_vals) + GRID_RES - 1, SetMax(x_vals) + GRID_RES}

\* centroid ordinates below, inside and above the grid's y values
CentroidYs ==
    {SetMin(y_vals) - GRID_RES, SetMin(y_vals) - 1, SetMin(y_vals) + 3,
     SetMax(y_vals) + GRID_RES}

\* buildings fetched within STUDY_RADIUS of the lot: their centroids may lie
\* outside the grid
BuildingCentroids ==
    (CentroidXs \X {SetMin(y_vals) + 3}) \cup ({SetMin(x_vals) + 3} \X CentroidYs)

\* the roads the facade loop is run behind
FacadeRoads ==
    {<<>>, <<RoadNorth>>, <<MultiLineString(<<RoadWest, RoadNorth>>)>>}

InitFacade ==
    /\ roads \in FacadeRoads
    /\ geom_i = 1
    /\ lines = <<>>
    /\ noise_energy = ZerosLike(GridPoints)
    /\ noise = <<>>
    /\ body = <<>>
    /\ centroids \in SeqsUpTo(BuildingCentroids, MaxBuildings)
    /\ geom_b = 1
    /\ facade_levels = <<>>
    /\ pc = "propagate"
    /\ ViewIdle
    /\ SectorIdle
    /\ EmissionIdle
    /\ ResolveIdle
    /\ LabelIdle
    /\ PlotIdle

NextFacade ==
    \/ GeomStep
    \/ LineStep
    \/ ComputeNoise
    \/ FacadeStep
    \/ AttachFacade

SpecFacade == InitFacade /\ [][NextFacade]_vars

(* traffic_emission evaluated on a range of traffic assumptions *)

InitEmission ==
    /\ flow \in Flows
    /\ heavy_pct \in HeavyShares
    /\ speed \in Speeds
    /\ emitted = 0
    /\ pc = "emission"
    /\ ViewIdle
    /\ SectorIdle
    /\ NoiseIdle
    /\ FacadeIdle
    /\ ResolveIdle
    /\ LabelIdle
    /\ PlotIdle

NextEmission == Emit

SpecEmission == InitEmission /\ [][NextEmission]_vars

----------------------------------------------------------------------------
(* LOCATION RESOLUTION: resolve_lot of the single-lot scripts, resolve_query  *)
(* and the RESOLVE INPUTS / analysis loops of the multi-input scripts.       *)
(* A query is known by its position in the list and carries the provider's  *)
(* response to it and whether a zoning polygon contains the resolved point.  *)

\* at most this many queries in MULTIPLE_QUERIES
MaxQueries == 2
\* at most this many candidates in a response
MaxCandidates == 3
\* candidate scores range over 1..MaxScore
MaxScore == 2

LotScripts == {"competing", "noise"}
QueryScripts == {"driving", "amenities"}

\* requests.get raised (provider unreachable)
NetworkError ==
    [net |-> "error", status |-> 0, parses |-> FALSE, has_key |-> FALSE,
     candidates |-> <<>>]

\* a response with its status code, whether its body is JSON, whether the
\* JSON has the key "candidates", and the candidates
HttpResponse(code, json, key, cands) ==
    [net |-> "ok", status |-> code, parses |-> json, has_key |-> key,
     candidates |-> cands]

\* the k-th candidate of a response: its score and its HK1980 grid location
Candidate(k, s) == [score |-> s, location |-> [x |-> 830000 + k, y |-> 815000 + k]]

CandidateLists ==
    {[k \in 1..Len(scores) |-> Candidate(k, scores[k])] :
        scores \in SeqsUpTo(1..MaxScore, MaxCandidates) \ {<<>>}}

\* the responses without a usable candidate
FailureResponses ==
    {NetworkError,
     HttpResponse(500, FALSE, FALSE, <<>>),
     HttpResponse(500, TRUE, FALSE, <<>>),
     HttpResponse(200, FALSE, FALSE, <<>>),
     HttpResponse(200, TRUE, FALSE, <<>>),
     HttpResponse(200, TRUE, TRUE, <<>>)}

AllResponses ==
    FailureResponses \cup {HttpResponse(200, TRUE, TRUE, c) : c \in CandidateLists}

\* the responses the lists of several queries are built from
RunResponses ==
    FailureResponses
        \cup {HttpResponse(200, TRUE, TRUE, <<Candidate(1, 1)>>),
               HttpResponse(200, TRUE, TRUE, <<Candidate(1, 1), Candidate(2, 1)>>)}

None == [none |-> TRUE]

Raised(exception) == [raised |-> exception]

\* a variant of max(candidates, key=score) that replaces the running maximum
\* also on an equal score, so that it keeps the last maximum
RECURSIVE PyMax_last(_, _, _)
PyMax_last(cands, k, best) ==
    IF k > Len(cands) THEN best
    ELSE PyMax_last(cands, k + 1,
                    IF cands[k].score >= best.score THEN cands[k] ELSE best)

\* max(candidates, key=lambda x: x["score"]): the running maximum is replaced
\* only by a strictly larger score
RECURSIVE PyMax(_, _, _)
PyMax(cands, k, best) ==
    IF k > Len(cands) THEN best
    ELSE PyMax(cands, k + 1,
               IF cands[k].score > best.score THEN cands[k] ELSE best)

\* Transformer.from_crs(2326, 4326, always_xy=True).transform(x, y)
Transform(x, y) == [lon |-> <<"lon4326", x, y>>, lat |-> <<"lat4326", x, y>>]

\* resolve_lot of Competing Developments Analysis: no status check, no try
resolve_lot(resp) ==
    IF resp.net = "error" THEN Raised("ConnectionError")
    ELSE IF ~resp.parses THEN Raised("JSONDecodeError")
    ELSE IF ~resp.has_key THEN Raised("KeyError")
    ELSE IF resp.candidates = <<>> THEN Raised("ValueError")
    ELSE LET best == PyMax(resp.candidates, 2, resp.candidates[1])
         IN  [x |-> best.location.x, y |-> best.location.y]

\* resolve_lot of Road Traffic Noise Impact: r.raise_for_status() first
resolve_lot_checked(resp) ==
    IF resp.net = "error" THEN Raised("ConnectionError")
    ELSE IF resp.status # 200 THEN Raised("HTTPError")
    ELSE resolve_lot(resp)

\* the body of the try block of resolve_query, up to best["location"]
QueryBest(resp) ==
    IF resp.net = "error" THEN None
    ELSE IF resp.status # 200 THEN None
    ELSE IF ~resp.parses THEN None
    ELSE IF ~resp.has_key \/ Len(resp.candidates) = 0 THEN None
    ELSE PyMax(resp.candidates, 2, resp.candidates[1])

\* resolve_query of Driving Distance Analysis
resolve_query_driving(value, resp) ==
    LET best == QueryBest(resp)
    IN  IF best = None THEN None
        ELSE [value |-> value,
              longitude |-> Transform(best.location.x, best.location.y).lon,
              latitude |-> Transform(best.location.x, best.location.y).lat]

\* resolve_query of Surrounding Amenities: returns lon, lat
resolve_query_amenities(resp) ==
    LET best == QueryBest(resp)
    IN  IF best = None THEN None
        ELSE Transform(best.location.x, best.location.y)

\* what the RESOLVE INPUTS code appends for query k, or None
Resolved(k) ==
    IF script = "driving"
    THEN resolve_query_driving(k, queries[k].response)
    ELSE IF resolve_query_amenities(queries[k].response) = None THEN None
         ELSE [value |-> k, coords |-> resolve_query_amenities(queries[k].response)]

\* a variant of the call that swallows the exception: the script ends quietly
ResolveLot_swallow ==
    /\ pc = "resolve"
    /\ script \in LotScripts
    /\ LET r == IF script = "noise" THEN resolve_lot_checked(queries[1].response)
                ELSE resolve_lot(queries[1].response)
       IN  IF "raised" \in DOMAIN r
           THEN /\ pc' = "done"
                /\ results' = results
           ELSE /\ pc' = "analysis"
                /\ results' = <<[value |-> 1, x2326 |-> r.x, y2326 |-> r.y]>>
    /\ attempts' = [attempts EXCEPT ![1] = @ + 1]
    /\ q_i' = 2
    /\ UNCHANGED <<mergeVars, sectorVars, noiseVars, facadeVars, emissionVars,
                   labelVars, plotVars, script, INPUT_MODE, queries, res_i, analysed,
                   rendered>>

\* x2326, y2326 = resolve_lot(LOT_ID): an exception ends the script
ResolveLot ==
    /\ pc = "resolve"
    /\ script \in LotScripts
    /\ LET r == IF script = "noise" THEN resolve_lot_checked(queries[1].response)
                ELSE resolve_lot(queries[1].response)
       IN  IF "raised" \in DOMAIN r
           THEN /\ pc' = "resolve_raised"
                /\ results' = results
           ELSE /\ pc' = "analysis"
                /\ results' = <<[value |-> 1, x2326 |-> r.x, y2326 |-> r.y]>>
    /\ attempts' = [attempts EXCEPT ![1] = @ + 1]
    /\ q_i' = 2
    /\ UNCHANGED <<mergeVars, sectorVars, noiseVars, facadeVars, emissionVars,
                   labelVars, plotVars, script, INPUT_MODE, queries, res_i, analysed,
                   rendered>>

\* lon, lat = transform(x2326, y2326) and the stages after it
LotStages ==
    /\ pc = "analysis"
    /\ script \in LotScripts
    /\ analysed' = Append(analysed, results[1].value)
    /\ rendered' = Append(rendered,
                          [LOT_ID |-> results[1].value,
                           site |-> Transform(results[1].x2326, results[1].y2326)])
    /\ res_i' = 2
    /\ pc' = "done"
    /\ UNCHANGED <<mergeVars, sectorVars, noiseVars, facadeVars, emissionVars,
                   labelVars, plotVars, script, INPUT_MODE, queries, q_i, attempts,
                   results>>

\* if INPUT_MODE == "SINGLE": one call, appended when truthy
ResolveSingle ==
    /\ pc = "resolve"
    /\ script \in QueryScripts
    /\ INPUT_MODE = "SINGLE"
    /\ attempts' = [attempts EXCEPT ![1] = @ + 1]
    /\ results' = IF Resolved(1) # None THEN Append(results, Resolved(1))
                  ELSE results
    /\ q_i' = 2
    /\ pc' = "analysis"
    /\ UNCHANGED <<mergeVars, sectorVars, noiseVars, facadeVars, emissionVars,
                   labelVars, plotVars, script, INPUT_MODE, queries, res_i, analysed,
                   rendered>>

\* a variant of the loop body that leaves the loop at the first failure
ResolveNext_break ==
    /\ pc = "resolve"
    /\ script \in QueryScripts
    /\ INPUT_MODE = "MULTIPLE"
    /\ q_i <= Len(queries)
    /\ attempts' = [attempts EXCEPT ![q_i] = @ + 1]
    /\ results' = IF Resolved(q_i) # None THEN Append(results, Resolved(q_i))
                  ELSE results
    /\ q_i' = IF Resolved(q_i) # None THEN q_i + 1 ELSE Len(queries) + 1
    /\ UNCHANGED <<viewVars, sectorVars, noiseVars, facadeVars, emissionVars,
                   labelVars, plotVars, script, INPUT_MODE, queries, res_i, analysed,
                   rendered>>

\* a variant of the loop body that puts a new result in front of the list
ResolveNext_front ==
    /\ pc = "resolve"
    /\ script \in QueryScripts
    /\ INPUT_MODE = "MULTIPLE"
    /\ q_i <= Len(queries)
    /\ attempts' = [attempts EXCEPT ![q_i] = @ + 1]
    /\ results' = IF Resolved(q_i) # None THEN <<Resolved(q_i)>> \o results
                  ELSE results
    /\ q_i' = q_i + 1
    /\ UNCHANGED <<viewVars, sectorVars, noiseVars, facadeVars, emissionVars,
                   labelVars, plotVars, script, INPUT_MODE, queries, res_i, analysed,
                   rendered>>

\* one iteration of: for query in MULTIPLE_QUERIES
ResolveNext ==
    /\ pc = "resolve"
    /\ script \in QueryScripts
    /\ INPUT_MODE = "MULTIPLE"
    /\ q_i <= Len(queries)
    /\ attempts' = [attempts EXCEPT ![q_i] = @ + 1]
    /\ results' = IF Resolved(q_i) # None THEN Append(results, Resolved(q_i))
                  ELSE results
    /\ q_i' = q_i + 1
    /\ UNCHANGED <<viewVars, sectorVars, noiseVars, facadeVars, emissionVars,
                   labelVars, plotVars, script, INPUT_MODE, queries, res_i, analysed,
                   rendered>>

\* the end of the resolution loop (if len(results) == 0: print(...))
ResolveEnd ==
    /\ pc = "resolve"
    /\ script \in QueryScripts
    /\ INPUT_MODE = "MULTIPLE"
    /\ q_i > Len(queries)
    /\ pc' = "analysis"
    /\ UNCHANGED <<mergeVars, sectorVars, noiseVars, scriptVars>>

\* one iteration of: for res in results / for LOT_ID, coords in locations.
\* Driving: ozp[ozp.contains(site_point)].geometry.iloc[0] raises IndexError
\* without a zoning polygon, else the figure is drawn inside the loop.
\* Amenities: an empty zoning selection skips the location (continue).
AnalyseStep ==
    /\ pc = "analysis"
    /\ script \in QueryScripts
    /\ res_i <= Len(results)
    /\ LET k == results[res_i].value
       IN  IF queries[k].zoned
           THEN /\ analysed' = Append(analysed, k)
                /\ rendered' = IF script = "driving"
                               THEN Append(rendered, [LOT_ID |-> k, site |-> k])
                               ELSE rendered
                /\ pc' = pc
           ELSE /\ analysed' = analysed
                /\ rendered' = rendered
                /\ pc' = IF script = "driving" THEN "analysis_failed" ELSE pc
    /\ res_i' = res_i + 1
    /\ UNCHANGED <<mergeVars, sectorVars, noiseVars, facadeVars, emissionVars,
                   labelVars, plotVars, script, INPUT_MODE, queries, q_i, attempts,
                   results>>

\* the end of the analysis loop; the Amenities script goes on to PLOT
AnalysisEnd ==
    /\ pc = "analysis"
    /\ script \in QueryScripts
    /\ res_i > Len(results)
    /\ pc' = IF script = "amenities" THEN "plot" ELSE "done"
    /\ UNCHANGED <<mergeVars, sectorVars, noiseVars, scriptVars>>

\* PLOT of the Amenities script, after the loop: it reads the variables the
\* loop left behind (LOT_ID and site_point of the last iteration, the layers
\* of the last iteration that ran to its end); a name that was never
\* assigned raises NameError
PlotStage ==
    /\ pc = "plot"
    /\ IF analysed = <<>>
       THEN /\ pc' = "plot_failed"
            /\ rendered' = rendered
       ELSE /\ pc' = "done"
            /\ rendered' = Append(rendered,
                                  [LOT_ID |-> results[Len(results)].value,
                                   site_point |-> results[Len(results)].value,
                                   site |-> analysed[Len(analysed)]])
    /\ UNCHANGED <<mergeVars, sectorVars, noiseVars, facadeVars, emissionVars,
                   labelVars, plotVars, script, INPUT_MODE, queries, q_i, attempts,
                   results, res_i, analysed>>

\* the queries a list may hold: a response, and for a response that
\* resolves, whether the point lies in a zoning polygon
QueryChoices(R) ==
    {[response |-> r, zoned |-> z] : r \in R, z \in BOOLEAN}
        \ {[response |-> r, zoned |-> TRUE] : r \in FailureResponses}

QueryLists(R, n) == SeqsUpTo(QueryChoices(R), n) \ {<<>>}

InitResolve ==
    /\ script \in LotScripts \cup QueryScripts
    /\ \/ /\ script \in LotScripts
          /\ INPUT_MODE = "LOT_ID"
          /\ queries \in {<<[response |-> r, zoned |-> TRUE]>> : r \in AllResponses}
       \/ /\ script \in QueryScripts
          /\ INPUT_MODE = "SINGLE"
          /\ queries \in QueryLists(AllResponses, 1)
       \/ /\ script \in QueryScripts
          /\ INPUT_MODE = "MULTIPLE"
          /\ queries \in QueryLists(AllResponses, 1) \cup QueryLists(RunResponses, MaxQueries)
    /\ q_i = 1
    /\ attempts = [k \in DOMAIN queries |-> 0]
    /\ results = <<>>
    /\ res_i = 1
    /\ analysed = <<>>
    /\ rendered = <<>>
    /\ pc = "resolve"
    /\ ViewIdle
    /\ SectorIdle
    /\ NoiseIdle
    /\ FacadeIdle
    /\ EmissionIdle
    /\ LabelIdle
    /\ PlotIdle

NextResolve ==
    \/ ResolveLot
    \/ LotStages
    \/ ResolveSingle
    \/ ResolveNext
    \/ ResolveEnd
    \/ AnalyseStep
    \/ AnalysisEnd
    \/ PlotStage

SpecResolve == InitResolve /\ [][NextResolve]_vars

----------------------------------------------------------------------------
(* STATION LABEL: the name drawn for a station, from its optional fields      *)
(* "name:en" and "name". A field holds text, is absent (None), or holds the   *)
(* missing-value marker NaN of a row whose column exists without a value.     *)

Absent == [kind |-> "None", text |-> ""]
NaN == [kind |-> "nan", text |-> ""]
Text(t) == [kind |-> "str", text |-> t]

StationNames == {"Central", "Admiralty", "Hong Kong", "Tsim Sha Tsui"}

FieldStates == {Absent, NaN} \cup {Text(t) : t \in StationNames}

\* Python truthiness: None is falsy, NaN (a non-zero float) is truthy, a
\* string is truthy unless empty
Truthy(v) == v.kind = "nan" \/ (v.kind = "str" /\ v.text # "")

\* str.upper()
Upper(t) ==
    CASE t = "Central" -> "CENTRAL"
      [] t = "Admiralty" -> "ADMIRALTY"
      [] t = "Hong Kong" -> "HONG KONG"
      [] t = "Tsim Sha Tsui" -> "TSIM SHA TSUI"
      [] t = "STATION" -> "STATION"
      [] t = "MTR Station" -> "MTR STATION"
      [] OTHER -> t

\* station.get("name:en") or station.get("name") or "STATION"
NameByOr(st) ==
    IF Truthy(st.name_en) THEN st.name_en
    ELSE IF Truthy(st.name) THEN st.name
    ELSE Text("STATION")

\* r.get("name:en") if isinstance(r.get("name:en"), str)
\*     else r.get("name") if isinstance(r.get("name"), str) else "MTR Station"
NameByType(st) ==
    IF st.name_en.kind = "str" THEN st.name_en
    ELSE IF st.name.kind = "str" THEN st.name
    ELSE Text("MTR Station")

\* the label of one station and name.upper(): a float has no upper(), the
\* call raises AttributeError
LabelStation ==
    /\ pc = "label"
    /\ LET n == IF script = "walking" THEN NameByType(station) ELSE NameByOr(station)
       IN  IF n.kind = "str"
           THEN /\ station_label' = Upper(n.text)
                /\ pc' = "labelled"
           ELSE /\ station_label' = station_label
                /\ pc' = "label_failed"
    /\ UNCHANGED <<mergeVars, sectorVars, noiseVars, facadeVars, emissionVars,
                   resolveVars, station, plotVars>>

InitLabel ==
    /\ script \in {"driving", "walking"}
    /\ station \in [name_en : FieldStates, name : FieldStates]
    /\ station_label = "none"
    /\ pc = "label"
    /\ INPUT_MODE = "SINGLE"
    /\ queries = <<>>
    /\ q_i = 1
    /\ attempts = <<>>
    /\ results = <<>>
    /\ res_i = 1
    /\ analysed = <<>>
    /\ rendered = <<>>
    /\ ViewIdle
    /\ SectorIdle
    /\ NoiseIdle
    /\ FacadeIdle
    /\ EmissionIdle
    /\ PlotIdle

NextLabel == LabelStation

SpecLabel == InitLabel /\ [][NextLabel]_vars

----------------------------------------------------------------------------
(* Claims about the sector view classifier *)

AllSameView(table) == \A k \in DOMAIN table : table[k].view = table[1].view

\* C1: if every sector receives the same classification c, the post-process
\* leaves the one-arc list of the linear walk unchanged and the result is
\* exactly the arc (0, 360, c).
CE_C1 ==
    [][(pc = "wrap" /\ pass = 1 /\ AllSameView(df))
        => (merged' = merged /\ merged' = << <<0, 360, df[1].view>> >>)]_vars

\* sector (s, e) lies inside the arc, the arc read cyclically when start > end
SectorIn(arc, s, e) ==
    IF arc[1] < arc[2]
    THEN arc[1] <= s /\ e <= arc[2]
    ELSE arc[1] <= s \/ e <= arc[2]

Tiles(list, table) ==
    \A k \in DOMAIN table :
        Cardinality({a \in DOMAIN list :
                        SectorIn(list[a], table[k].start, table[k].end)}) = 1

\* C2: for every classification of the sectors, the arc list after the
\* post-process tiles the circle exactly once: every sector belongs to exactly
\* one arc (no gap, no overlap).
CE_C2 == (pc = "done" /\ pass = 1) => Tiles(merged, df)

\* C3: the merge is idempotent: the merge procedure run again on the arc list
\* it produced ends with the identical list.
CE_C3 ==
    (pass = 2 /\ pc \in {"done", "error"}) => (pc = "done" /\ merged = first_run)

\* the arc from the last arc's start to the first arc's end
WrapFused(list) ==
    <<list[Len(list)][1], list[1][2], list[1][3]>>

\* C4: when the linear walk yields at least two arcs and the first and last
\* arc share a classification, the post-process replaces them by one arc from
\* the last arc's start to the first arc's end and the list shrinks by one;
\* when they differ the list is unchanged.
Thm_C4 ==
    [][(pc = "wrap" /\ Len(merged) >= 2)
        => IF merged[1][3] = merged[Len(merged)][3]
           THEN /\ Len(merged') = Len(merged) - 1
                /\ merged'[1] = WrapFused(merged)
                /\ \A k \in 2..(Len(merged) - 1) : merged'[k] = merged[k]
           ELSE merged' = merged]_vars

\* a fused arc (start > end) heads a list of at least two arcs
Wit_C4 ==
    /\ pc = "done"
    /\ pass = 1
    /\ Len(merged) >= 2
    /\ merged[1][1] > merged[1][2]

ViewOrder == <<"GREEN", "WATER", "CITY", "OPEN">>

RowScores(row) ==
    <<row.green_score, row.water_score, row.city_score, row.open_score>>

\* C5: classification selects exactly one of GREEN, WATER, CITY, OPEN, a
\* category of maximal score, and on a tie the earliest in that order.
Thm_C5 ==
    (pc = "merge_init") =>
        \A r \in DOMAIN df :
            \E k \in 1..4 :
                /\ df[r].view = ViewOrder[k]
                /\ \A j \in 1..4 : FLeq(RowScores(df[r])[j], RowScores(df[r])[k])
                /\ \A j \in 1..(k - 1) : FLt(RowScores(df[r])[j], RowScores(df[r])[k])
                /\ \A m \in 1..4 : df[r].view = ViewOrder[m] => m = k

\* a three-way tie at a positive score, settled for the earliest category
Wit_C5 ==
    /\ pc = "merge_init"
    /\ \E r \in DOMAIN df :
         /\ df[r].view = "WATER"
         /\ FEq(df[r].water_score, df[r].city_score)
         /\ FEq(df[r].water_score, df[r].open_score)
         /\ FLt(df[r].green_score, df[r].water_score)

\* Scenario 2: sector g, one of several sectors, has green ratio 1; every
\* other raw metric of every sector is 0
Scenario2(g) ==
    /\ g \in DOMAIN df
    /\ Len(df) >= 2
    /\ FEq(df[g].green, One)
    /\ \A k \in DOMAIN df :
         /\ k # g => FEq(df[k].green, Zero)
         /\ FEq(df[k].water, Zero)
         /\ FEq(df[k].building, Zero)
         /\ FEq(df[k].avg_height, Zero)

OpenArcs == {a \in DOMAIN merged : merged[a][3] = "OPEN"}

Scenario2Arcs(g) ==
    /\ df[g].view = "GREEN"
    /\ \A k \in DOMAIN df : k # g => df[k].view = "OPEN"
    /\ \E a \in DOMAIN merged : merged[a] = <<df[g].start, df[g].end, "GREEN">>
    /\ Cardinality(OpenArcs) = 1
    /\ Len(merged) = 2
    /\ \A k \in DOMAIN df : \A a \in OpenArcs :
         k # g => SectorIn(merged[a], df[k].start, df[k].end)

\* the single OPEN arc is a wraparound arc (it runs through 360/0)
OpenArcFused == \A a \in OpenArcs : merged[a][1] > merged[a][2]

\* C6 as stated: in scenario 2 the GREEN sector forms its own arc, the others
\* one OPEN arc, obtained by wraparound fusion whenever the GREEN sector is
\* not the sector starting at angle 0.
CE_C6 ==
    (pc = "done" /\ pass = 1) =>
        \A g \in DOMAIN df :
            Scenario2(g) => (Scenario2Arcs(g) /\ (g # 1 => OpenArcFused))

\* C6 amended: in scenario 2 the GREEN sector forms its own arc, the others
\* one OPEN arc, and that arc is obtained by wraparound fusion exactly when
\* the GREEN sector is neither the first nor the last sector.
Thm_C6 ==
    (pc = "done" /\ pass = 1) =>
        \A g \in DOMAIN df :
            Scenario2(g) =>
                (Scenario2Arcs(g) /\ (OpenArcFused <=> (g # 1 /\ g # Len(df))))

\* scenario 2 with the GREEN sector in the middle: the OPEN arc is fused
Wit_C6 ==
    /\ pc = "done"
    /\ pass = 1
    /\ \E g \in DOMAIN df : Scenario2(g) /\ g # 1 /\ g # Len(df) /\ OpenArcFused

RawColumns == <<"green", "water", "avg_height", "building">>
NormColumns == <<"green_n", "water_n", "height_n", "density_n">>

ColumnNormalized(raw, norm) ==
    /\ \A k \in DOMAIN norm :
         norm[k][2] > 0 /\ FLeq(Zero, norm[k]) /\ FLeq(norm[k], One)
    /\ IF \A k \in DOMAIN raw : FEq(raw[k], raw[1])
       THEN \A k \in DOMAIN norm : norm[k] = Zero
       ELSE \A k \in DOMAIN raw :
              /\ (\A j \in DOMAIN raw : FLeq(raw[k], raw[j])) => norm[k] = Zero
              /\ (\A j \in DOMAIN raw : FLeq(raw[j], raw[k])) => norm[k] = One

\* C7: every normalised metric lies in [0,1]; when raw values differ the
\* minimum maps to 0 and the maximum to 1; when all are equal every normalised
\* value is 0, with no division by zero.
Thm_C7 ==
    (pc \in {"score", "merge_init"}) =>
        \A c \in 1..4 :
            ColumnNormalized(Column(df, RawColumns[c]), Column(df, NormColumns[c]))

\* one metric constant and non-zero over the sectors, another with its
\* minimum at 0 and its maximum at 1
Wit_C7 ==
    /\ pc = "score"
    /\ \A k \in DOMAIN df : FEq(df[k].green, One) /\ df[k].green_n = Zero
    /\ \E k \in DOMAIN df : FLt(df[k].water, One) /\ df[k].water_n = Zero
    /\ \E k \in DOMAIN df : df[k].water_n = One

RatioColumns == <<"green", "water", "building">>

\* C8: for every sector and every layer content, overlapping features
\* included, green_ratio, water_ratio and building_ratio are in [0,1]; a
\* sector of zero area gets ratio 0 for all three.
CE_C8 ==
    \A k \in DOMAIN sector_data :
        \A c \in 1..3 :
            /\ FLeq(Zero, sector_data[k][RatioColumns[c]])
            /\ FLeq(sector_data[k][RatioColumns[c]], One)
            /\ VIEW_RADIUS = 0 => sector_data[k][RatioColumns[c]] = Zero

----------------------------------------------------------------------------
(* Claims about the acoustic exposure estimator *)

RoadLines == {RoadNorth, RoadEast, RoadWest}

RECURSIVE CountIn(_, _)
CountIn(line, seq) ==
    IF seq = <<>> THEN 0
    ELSE (IF Head(seq) = line THEN 1 ELSE 0) + CountIn(line, Tail(seq))

\* how often the line occurs among all parts of all road geometries
RECURSIVE Occurrences(_, _)
Occurrences(line, geoms) ==
    IF geoms = <<>> THEN 0
    ELSE (IF Head(geoms).geom_type = "MultiLineString"
          THEN CountIn(line, Head(geoms).geoms)
          ELSE (IF Head(geoms) = line THEN 1 ELSE 0))
         + Occurrences(line, Tail(geoms))

RECURSIVE SumOver(_, _, _)
SumOver(S, geoms, pt) ==
    IF S = {} THEN 0
    ELSE LET l == CHOOSE l \in S : TRUE
         IN  Occurrences(l, geoms) * Pow10dB(SourceLevel(l, pt))
                + SumOver(S \ {l}, geoms, pt)

SegmentCount == 
    Occurrences(RoadNorth, roads) + Occurrences(RoadEast, roads)
        + Occurrences(RoadWest, roads)

\* C9: after the propagation loop each grid cell's energy is the sum of the
\* per-segment energies over all road segments, every part of every
\* MultiLineString counted once, whatever the order of the segments.
Thm_C9 ==
    (pc = "noise_done") =>
        /\ DOMAIN noise_energy = GridPoints
        /\ \A c \in GridPoints : noise_energy[c] = SumOver(RoadLines, roads, c)

\* three segments, two of them parts of one MultiLineString, were added up
Wit_C9 ==
    /\ pc = "noise_done"
    /\ Len(roads) = 2
    /\ roads[1].geom_type = "MultiLineString"
    /\ Len(roads[1].geoms) = 2
    /\ roads[2].geom_type = "LineString"
    /\ \A c \in GridPoints : noise_energy[c] >= 3

\* C10: with zero road segments the loop changes no cell: every energy stays
\* 0 and every reported level is the constant 10 * log10(1e-9) = -90 dB.
Thm_C10 ==
    (SegmentCount = 0) =>
        /\ \A c \in GridPoints : noise_energy[c] = 0
        /\ pc = "noise_done" => \A c \in GridPoints : noise[c] = -90

\* the loop ran over geometries without any line and the levels were computed
Wit_C10 ==
    /\ pc = "noise_done"
    /\ SegmentCount = 0
    /\ Len(roads) >= 1
    /\ DOMAIN noise = GridPoints

----------------------------------------------------------------------------
(* Claims about the traffic emission model *)

\* Scenario 3: flow = 1200 veh/h, heavy fraction = 0.12, speed = 40 km/h
Scenario3 == flow = 1200 /\ heavy_pct = 12 /\ speed = 40

\* C11: in Scenario 3 the combined source level computed by traffic_emission
\* from the light/heavy formulas lies in the range of about 76 to 78 dB.
CE_C11 ==
    (pc = "emitted" /\ Scenario3) => (755 <= emitted /\ emitted <= 785)

\* C11 (amended): in Scenario 3 the combined source level computed by
\* traffic_emission is about 59 dB (between 58.5 and 59.5 dB).
Thm_C11 ==
    (pc = "emitted" /\ Scenario3) => (585 <= emitted /\ emitted <= 595)

\* traffic_emission has returned for the inputs of Scenario 3
Wit_C11 == pc = "emitted" /\ Scenario3 /\ emitted > 0

----------------------------------------------------------------------------
(* Claims about the per-source level of the propagation loop *)

\* the segment from p to q has a point in the rectangle: an end point lies in
\* it, or the segment crosses one of its four edges
InRect(pt, rect) ==
    rect[1] <= pt[1] /\ pt[1] <= rect[3] /\ rect[2] <= pt[2] /\ pt[2] <= rect[4]

\* the segment reaches the vertical line x = x0 at a height within [lo, hi]
CrossesAtX(p, q, x0, lo, hi) ==
    /\ p[1] # q[1]
    /\ Min2(p[1], q[1]) <= x0
    /\ x0 <= Max2(p[1], q[1])
    /\ LET num == p[2] * (q[1] - p[1]) + (x0 - p[1]) * (q[2] - p[2])
           den == q[1] - p[1]
       IN  IF den > 0 THEN lo * den <= num /\ num <= hi * den
                      ELSE lo * den >= num /\ num >= hi * den

Swap(pt) == <<pt[2], pt[1]>>

Obstructed(line, pt) ==
    LET p == Centroid2(line)
        q == <<2 * pt[1], 2 * pt[2]>>
        r == BarrierRect2
    IN  \/ InRect(p, r)
        \/ InRect(q, r)
        \/ CrossesAtX(p, q, r[1], r[2], r[4])
        \/ CrossesAtX(p, q, r[3], r[2], r[4])
        \/ CrossesAtX(Swap(p), Swap(q), r[2], r[1], r[3])
        \/ CrossesAtX(Swap(p), Swap(q), r[4], r[1], r[3])

Thm_C13 ==
    (body # <<>>) =>
        \A c \in GridPoints :
            /\ body.d[c] >= 0
            /\ body.d[c] + 1 >= 1
            /\ body.A_div[c] >= 0
            /\ body.A_ground[c] >= 0
            /\ body.d[c] = 0 => (body.A_div[c] = 0 /\ body.A_ground[c] = 0)

\* a grid point lies on the line: distance 0, both attenuations 0
Wit_C13 ==
    /\ body # <<>>
    /\ \E c \in GridPoints :
         body.d[c] = 0 /\ body.A_div[c] = 0 /\ body.A_ground[c] = 0

----------------------------------------------------------------------------
(* Claims about the facade exposure *)

\* the centroid lies outside the range of the grid's x values or y values
OutsideGrid(centroid) ==
    \/ centroid[1] < SetMin(x_vals)
    \/ centroid[1] > SetMax(x_vals)
    \/ centroid[2] < SetMin(y_vals)
    \/ centroid[2] > SetMax(y_vals)

\* the centroid lies at least GRID_RES beyond that range
BeyondGrid(centroid) ==
    \/ centroid[1] <= SetMin(x_vals) - GRID_RES
    \/ centroid[1] >= SetMax(x_vals) + GRID_RES
    \/ centroid[2] <= SetMin(y_vals) - GRID_RES
    \/ centroid[2] >= SetMax(y_vals) + GRID_RES

\* C14: a building whose centroid lies outside the grid bounds (outside the
\* range of grid x values or of grid y values) gets a NaN facade exposure,
\* never a numeric value.
CE_C14 ==
    \A k \in DOMAIN facade_levels :
        OutsideGrid(centroids[k]) => facade_levels[k] = "nan"

\* C14 (amended): a building gets a NaN facade exposure exactly when its
\* centroid lies at least GRID_RES beyond the range of grid x values or of
\* grid y values; a centroid less than GRID_RES outside that range still
\* matches the edge samples and gets a numeric value.
Thm_C14 ==
    \A k \in DOMAIN facade_levels :
        (facade_levels[k] = "nan") <=> BeyondGrid(centroids[k])

\* one building beyond the grid got NaN, one just outside it got a number
Wit_C14 ==
    /\ pc = "facade_done"
    /\ \E k \in DOMAIN facade_levels :
         BeyondGrid(centroids[k]) /\ facade_levels[k] = "nan"
    /\ \E k \in DOMAIN facade_levels :
         /\ OutsideGrid(centroids[k])
         /\ ~BeyondGrid(centroids[k])
         /\ facade_levels[k] # "nan"

----------------------------------------------------------------------------
(* Claims about the location resolution *)

\* the response to query k carries at least one candidate
HasCandidates(k) ==
    /\ queries[k].response.net = "ok"
    /\ queries[k].response.status = 200
    /\ queries[k].response.parses
    /\ queries[k].response.has_key
    /\ Len(queries[k].response.candidates) >= 1

Attempted(k) == attempts[k] >= 1

\* candidate m has the maximal score and is the first with that score
FirstMax(cands, m) ==
    /\ \A j \in DOMAIN cands : cands[j].score <= cands[m].score
    /\ \A j \in 1..(m - 1) : cands[j].score < cands[m].score

\* the entry holds the coordinates of the candidate: the grid coordinates
\* (resolve_lot) or their longitude / latitude (resolve_query)
HoldsCandidate(entry, cand) ==
    IF script \in LotScripts
    THEN entry.x2326 = cand.location.x /\ entry.y2326 = cand.location.y
    ELSE IF script = "driving"
    THEN /\ entry.longitude = Transform(cand.location.x, cand.location.y).lon
         /\ entry.latitude = Transform(cand.location.x, cand.location.y).lat
    ELSE entry.coords = Transform(cand.location.x, cand.location.y)

EntriesOf(k) == {e \in DOMAIN results : results[e] # None /\ results[e].value = k}

\* C15: whenever the response contains at least one candidate, every
\* resolver (resolve_lot, resolve_query) returns the coordinates of a
\* candidate whose score is maximal among all returned candidates, the first
\* such candidate on ties.
Thm_C15 ==
    \A k \in DOMAIN queries :
        (Attempted(k) /\ HasCandidates(k)) =>
            /\ pc # "resolve_raised"
            /\ \E e \in EntriesOf(k) :
                 \E m \in DOMAIN queries[k].response.candidates :
                    /\ FirstMax(queries[k].response.candidates, m)
                    /\ HoldsCandidate(results[e], queries[k].response.candidates[m])

\* three candidates, the maximum shared by the second and the third: the
\* second was returned
Wit_C15 ==
    /\ script = "competing"
    /\ Attempted(1)
    /\ Len(queries[1].response.candidates) = 3
    /\ queries[1].response.candidates[1].score < queries[1].response.candidates[2].score
    /\ queries[1].response.candidates[2].score = queries[1].response.candidates[3].score
    /\ \E e \in EntriesOf(1) :
         HoldsCandidate(results[e], queries[1].response.candidates[2])

\* C16: when no candidate is found or the request fails (network error,
\* non-200 status, malformed response), every resolver (resolve_lot and
\* resolve_query) returns an empty/absent result instead of raising, and the
\* caller checks that result before any later stage uses coordinates.
CE_C16 ==
    \A k \in DOMAIN queries :
        (Attempted(k) /\ ~HasCandidates(k)) =>
            /\ pc # "resolve_raised"
            /\ EntriesOf(k) = {}
            /\ \A a \in DOMAIN analysed : analysed[a] # k

\* C16 (amended): on such a failure resolve_query (multi-input Driving and
\* Amenities scripts) returns None instead of raising, its caller appends
\* nothing and no later stage uses coordinates of that identifier;
\* resolve_lot (single-lot scripts) raises, nothing catches the exception,
\* and the run ends before any later stage uses coordinates.
Thm_C16 ==
    \A k \in DOMAIN queries :
        (Attempted(k) /\ ~HasCandidates(k)) =>
            IF script \in QueryScripts
            THEN /\ pc # "resolve_raised"
                 /\ \A e \in DOMAIN results : results[e] # None
                 /\ EntriesOf(k) = {}
                 /\ \A a \in DOMAIN analysed : analysed[a] # k
                 /\ \A r \in DOMAIN rendered :
                        rendered[r].LOT_ID # k /\ rendered[r].site # k
            ELSE /\ pc = "resolve_raised"
                 /\ results = <<>>
                 /\ analysed = <<>>
                 /\ rendered = <<>>

\* resolve_lot raised on an empty candidate list and the script ended there
Wit_C16 ==
    /\ script = "noise"
    /\ pc = "resolve_raised"
    /\ Attempted(1)
    /\ queries[1].response.status = 200
    /\ queries[1].response.has_key
    /\ queries[1].response.candidates = <<>>

\* the queries of the list that resolve, in list order
RECURSIVE Successes(_)
Successes(k) ==
    IF k = 0 THEN <<>>
    ELSE IF HasCandidates(k) THEN Append(Successes(k - 1), k) ELSE Successes(k - 1)

\* C17: a provider failure while resolving an identifier is fatal to the run
\* and is never retried: after the first failed resolution no further
\* identifier is resolved and no analysis or rendering stage executes, in
\* SINGLE and in MULTIPLE input mode.
CE_C17 ==
    \A k \in DOMAIN queries :
        /\ attempts[k] <= 1
        /\ (Attempted(k) /\ ~HasCandidates(k)) =>
              /\ \A j \in DOMAIN queries : j > k => ~Attempted(j)
              /\ analysed = <<>>
              /\ rendered = <<>>
              /\ pc \notin {"plot", "plot_failed"}

\* C17 (amended): a provider failure is never retried (every identifier is
\* requested at most once), and with resolve_query it is not fatal: the
\* failed identifier yields no location; in MULTIPLE mode every later
\* identifier is still resolved and the analysis loop runs over the
\* identifiers that resolved; in SINGLE mode no location is left, the body of
\* the analysis loop never runs and nothing is rendered.
Thm_C17 ==
    /\ \A k \in DOMAIN queries : attempts[k] <= 1
    /\ (script \in QueryScripts /\ pc # "resolve") =>
          /\ \A k \in DOMAIN queries : attempts[k] = 1
          /\ Len(results) = Len(Successes(Len(queries)))
          /\ \A e \in DOMAIN results :
                results[e] # None /\ results[e].value = Successes(Len(queries))[e]
          /\ \A a \in DOMAIN analysed : HasCandidates(analysed[a])
    /\ (script \in QueryScripts /\ INPUT_MODE = "SINGLE"
            /\ Attempted(1) /\ ~HasCandidates(1)) =>
          /\ results = <<>>
          /\ analysed = <<>>
          /\ rendered = <<>>

\* MULTIPLE mode: the first identifier failed, the second was still resolved,
\* analysed and rendered
Wit_C17 ==
    /\ INPUT_MODE = "MULTIPLE"
    /\ Len(queries) >= 2
    /\ script = "amenities"
    /\ pc = "done"
    /\ ~HasCandidates(1)
    /\ attempts[1] = 1
    /\ attempts[2] = 1
    /\ analysed = <<2>>
    /\ Len(rendered) = 1

----------------------------------------------------------------------------
(* Claims about the station label *)

\* the field is present: it holds text
Present(v) == v.kind = "str"

Placeholder == IF script = "walking" THEN "MTR Station" ELSE "STATION"

\* the English name if present, else the generic name if present, else the
\* placeholder
FallbackName(st) ==
    IF Present(st.name_en) THEN st.name_en.text
    ELSE IF Present(st.name) THEN st.name.text
    ELSE Placeholder

\* C18: for every station record, whatever the state of its optional name
\* fields (text, absent, or NaN), the label is the English name if present,
\* else the generic name if present, else the placeholder, and computing and
\* upper-casing the label never fails.
CE_C18 ==
    (pc \in {"labelled", "label_failed"}) =>
        /\ pc = "labelled"
        /\ station_label = Upper(FallbackName(station))

----------------------------------------------------------------------------
(* Claims about the sectors of the metric loop and the merged arcs *)

RECURSIVE WidthSum(_)
WidthSum(rows) ==
    IF rows = <<>> THEN 0
    ELSE (Head(rows).end - Head(rows).start) + WidthSum(Tail(rows))

\* C19: for every wedge width W that evenly divides 360 the metric loop
\* generates exactly 360/W sectors (kW, (k+1)W), k = 0 .. 360/W - 1, in
\* increasing angle order: each has 0 <= start < end <= 360, each sector's
\* end is the next sector's start, and the widths sum to exactly 360.
Thm_C19 ==
    (pc = "normalize" /\ 360 % SECTOR_SIZE = 0) =>
        /\ Len(df) = 360 \div SECTOR_SIZE
        /\ \A k \in DOMAIN df :
              /\ df[k].start = (k - 1) * SECTOR_SIZE
              /\ df[k].end = k * SECTOR_SIZE
              /\ 0 <= df[k].start
              /\ df[k].start < df[k].end
              /\ df[k].end <= 360
        /\ \A k \in 1..(Len(df) - 1) : df[k].end = df[k + 1].start
        /\ WidthSum(df) = 360

\* the loop has produced the four sectors of width 90
Wit_C19 ==
    /\ pc = "normalize"
    /\ SECTOR_SIZE = 90
    /\ Len(sector_data) = 4
    /\ df = sector_data
    /\ angle = 360

\* C20: every arc of the merged output is a maximal run: no two arcs that
\* are adjacent in the output list, and not the first and the last arc
\* (adjacent on the ring), carry the same classification, and all sectors
\* inside one arc carry that arc's classification.
Thm_C20 ==
    (pc = "done" /\ pass = 1) =>
        /\ \A a \in 1..(Len(merged) - 1) : merged[a][3] # merged[a + 1][3]
        /\ Len(merged) >= 2 => merged[1][3] # merged[Len(merged)][3]
        /\ \A a \in DOMAIN merged :
              \A k \in DOMAIN df :
                  SectorIn(merged[a], df[k].start, df[k].end)
                      => df[k].view = merged[a][3]

\* three arcs, the first fused across 0 degrees from two sectors
Wit_C20 ==
    /\ pc = "done"
    /\ pass = 1
    /\ Len(df) = 4
    /\ Len(merged) = 3
    /\ merged[1][1] > merged[1][2]
    /\ df[1].view = merged[1][3]
    /\ df[4].view = merged[1][3]

----------------------------------------------------------------------------
(* Further claims about normalisation, scoring and the arcs *)

\* every sector has the same green, water, building ratio and average height
IdenticalRaw(table) ==
    \A k \in DOMAIN table :
        /\ FEq(table[k].green, table[1].green)
        /\ FEq(table[k].water, table[1].water)
        /\ FEq(table[k].building, table[1].building)
        /\ FEq(table[k].avg_height, table[1].avg_height)

\* C21: when all sectors have identical raw metrics every normalized value
\* is 0, so every sector has green_score = water_score = city_score = 0 and
\* open_score = 1 and is classified OPEN.
Thm_C21 ==
    (pc = "merge_init" /\ pass = 1 /\ IdenticalRaw(df)) =>
        \A k \in DOMAIN df :
            /\ FEq(df[k].green_n, Zero)
            /\ FEq(df[k].water_n, Zero)
            /\ FEq(df[k].height_n, Zero)
            /\ FEq(df[k].density_n, Zero)
            /\ FEq(df[k].green_score, Zero)
            /\ FEq(df[k].water_score, Zero)
            /\ FEq(df[k].city_score, Zero)
            /\ FEq(df[k].open_score, One)
            /\ df[k].view = "OPEN"

\* several sectors, all entirely green, all classified OPEN
Wit_C21 ==
    /\ pc = "merge_init"
    /\ pass = 1
    /\ Len(df) >= 3
    /\ IdenticalRaw(df)
    /\ FEq(df[1].green, One)
    /\ \A k \in DOMAIN df : df[k].view = "OPEN"

\* C22: a sector is classified GREEN only if its green ratio is strictly
\* positive and WATER only if its water ratio is strictly positive: a sector
\* without green and water coverage is always classified CITY or OPEN, for
\* every combination of density_n and height_n.
CE_C22 ==
    (pc = "merge_init" /\ pass = 1) =>
        \A k \in DOMAIN df :
            /\ df[k].view = "GREEN" => FLt(Zero, df[k].green)
            /\ df[k].view = "WATER" => FLt(Zero, df[k].water)
            /\ (FEq(df[k].green, Zero) /\ FEq(df[k].water, Zero))
                  => df[k].view \in {"CITY", "OPEN"}

\* C23: every arc of the merged list is at least one sector wide by its
\* end - start, so the draw loop puts a "<CLASS> VIEW" text on every arc,
\* the arc made by the wraparound fusion included.
CE_C23 ==
    pc = "drawn" =>
        /\ \A a \in DOMAIN merged : merged[a][2] - merged[a][1] >= SECTOR_SIZE
        /\ Len(view_texts) = Len(merged)

----------------------------------------------------------------------------
(* Further claims about the noise grid *)

\* the centroid lies in the grid's bounding box, upper edges excluded
InBox(centroid) ==
    /\ StudyBounds[1] <= centroid[1] /\ centroid[1] < StudyBounds[3]
    /\ StudyBounds[2] <= centroid[2] /\ centroid[2] < StudyBounds[4]

\* C24: a building whose centroid lies in [minx, maxx) x [miny, maxy) of the
\* grid's bounding box matches at least one and at most four grid sample
\* points, at most two per axis, and its exposure is a number, never NaN.
Thm_C24 ==
    \A k \in DOMAIN facade_levels :
        InBox(centroids[k]) =>
            LET M == Mask(centroids[k])
            IN  /\ Cardinality(M) >= 1
                /\ Cardinality(M) <= 4
                /\ Cardinality({c[1] : c \in M}) <= 2
                /\ Cardinality({c[2] : c \in M}) <= 2
                /\ facade_levels[k] # "nan"

\* the loop has ended with one building between four samples and one
\* beside the last column of the grid, both with a numeric exposure
Wit_C24 ==
    /\ pc = "facade_done"
    /\ \E k \in DOMAIN facade_levels :
         /\ InBox(centroids[k])
         /\ Cardinality(Mask(centroids[k])) = 4
         /\ facade_levels[k] # "nan"
    /\ \E k \in DOMAIN facade_levels :
         /\ InBox(centroids[k])
         /\ centroids[k][1] > SetMax(x_vals)
         /\ Cardinality(Mask(centroids[k])) = 2
         /\ facade_levels[k] # "nan"

\* C25: while the road segments are processed one after another no cell's
\* accumulated energy ever decreases, every processed segment adds a
\* strictly positive amount to every cell, and the final level of every cell
\* is at least the epsilon floor 10 * log10(1e-9).
Thm_C25 ==
    [][ /\ \A c \in DOMAIN noise_energy : noise_energy'[c] >= noise_energy[c]
        /\ (pc = "propagate" /\ lines # <<>>) =>
               \A c \in DOMAIN noise_energy : noise_energy'[c] > noise_energy[c]
        /\ (pc' = "noise_done") =>
               \A c \in DOMAIN noise' : noise'[c] >= 10 * EpsExponent ]_vars

\* two segments or more were processed, one of them the northern road, and
\* every cell ended above the floor with more energy than that road gave it
Wit_C25 ==
    /\ pc = "noise_done"
    /\ SegmentCount >= 2
    /\ Occurrences(RoadNorth, roads) = 1
    /\ \A c \in GridPoints :
         /\ noise_energy[c] > LineEnergy(RoadNorth, c)
         /\ noise[c] > 10 * EpsExponent

----------------------------------------------------------------------------
(* Further claims about the multi-input scripts *)

\* C26: in MULTIPLE mode the result list holds, after the resolution loop,
\* exactly the queries that resolved, once each and in the order of
\* MULTIPLE_QUERIES; a failed query adds nothing to the list, changes no
\* entry already in it and does not stop the resolution of later queries.
Thm_C26 ==
    [][ (script \in QueryScripts /\ INPUT_MODE = "MULTIPLE") =>
          /\ (pc = "resolve" /\ q_i <= Len(queries)) =>
                /\ q_i' = q_i + 1
                /\ pc' = "resolve"
                /\ IF HasCandidates(q_i)
                   THEN /\ Len(results') = Len(results) + 1
                        /\ \A e \in DOMAIN results : results'[e] = results[e]
                        /\ results'[Len(results')] # None
                        /\ results'[Len(results')].value = q_i
                   ELSE results' = results
          /\ (pc = "resolve" /\ pc' = "analysis") =>
                /\ q_i = Len(queries) + 1
                /\ Len(results') = Len(Successes(Len(queries)))
                /\ \A e \in DOMAIN results' :
                      results'[e].value = Successes(Len(queries))[e]
          /\ (pc # "resolve") => results' = results ]_vars

\* the first query failed, the second resolved: the loop has ended with the
\* second query as the only result, its analysis not yet begun
Wit_C26 ==
    /\ script = "driving"
    /\ INPUT_MODE = "MULTIPLE"
    /\ pc = "analysis"
    /\ res_i = 1
    /\ Len(queries) = 2
    /\ ~HasCandidates(1)
    /\ HasCandidates(2)
    /\ Len(results) = 1
    /\ results[1].value = 2

\* the resolved queries whose site point lies in a zoning polygon, in order
RECURSIVE ZonedSuccesses(_)
ZonedSuccesses(k) ==
    IF k = 0 THEN <<>>
    ELSE IF HasCandidates(k) /\ queries[k].zoned
         THEN Append(ZonedSuccesses(k - 1), k)
         ELSE ZonedSuccesses(k - 1)

\* C27: in MULTIPLE mode every resolved location is eventually analysed,
\* once and in list order; a location without a zoning polygon around the
\* site point is skipped or fails on its own, and the analysis of all later
\* resolved locations still runs: once the scripts have left the analysis
\* loop, the loop has visited every resolved location and has analysed
\* those with a zoning polygon.
CE_C27 ==
    (script \in QueryScripts /\ INPUT_MODE = "MULTIPLE"
        /\ pc \notin {"resolve", "analysis"}) =>
            /\ res_i = Len(results) + 1
            /\ analysed = ZonedSuccesses(Len(queries))

\* C28: in the multi-input Surrounding Amenities script, whenever the plot
\* stage runs, every value it reads (site_point, the zoning, the layers,
\* site_geom, stations, routes, labels, LOT_ID) has been assigned and was
\* computed for one and the same location, for every list of resolved
\* locations: an empty one, and one in which a location has no zoning polygon.
CE_C28 ==
    (script = "amenities") =>
        /\ pc # "plot_failed"
        /\ \A r \in DOMAIN rendered :
              /\ rendered[r].LOT_ID = rendered[r].site
              /\ rendered[r].site_point = rendered[r].site

----------------------------------------------------------------------------
(* Driving Distance: add_route_arrow                                        *)
(* A route runs along one street: a coordinate is <<x, 0>> with a whole     *)
(* abscissa, and a route's rows are its edges, each a LineString that       *)
(* starts where the one before it ends.                                     *)

\* abscissas 0..MaxCoord
MaxCoord == 4

\* a LineString with the given coordinate list
RouteLine(coords) == [geom_type |-> "LineString", coords |-> coords]

RECURSIVE SortedCoords(_)
SortedCoords(S) ==
    IF S = {} THEN <<>>
    ELSE <<<<SetMin(S), 0>>>> \o SortedCoords(S \ {SetMin(S)})

\* the coordinate lists of two or more points
CoordLists ==
    {SortedCoords(S) : S \in {S \in SUBSET (0..MaxCoord) : Cardinality(S) >= 2}}

\* the rows of a route: one edge, or two edges that meet at a coordinate; and
\* a row with an empty geometry, whose union is an empty line or an empty
\* collection
RouteRows ==
    {<<RouteLine(q)>> : q \in CoordLists}
        \cup {<<RouteLine(SubSeq(q[1], 1, q[2])), RouteLine(SubSeq(q[1], q[2], Len(q[1])))>> :
                 q \in {q \in CoordLists \X (2..MaxCoord) : q[2] < Len(q[1])}}
        \cup {<<RouteLine(<<>>)>>,
              <<[geom_type |-> "GeometryCollection", coords |-> <<>>]>>}

\* what get_route returns: None, or the GeoDataFrame of the route's edges
Routes == {None} \cup {[geometry |-> rows] : rows \in RouteRows \cup {<<>>}}

\* gdf_route.geometry.union_all(): the one row, or the MultiLineString of
\* the rows
union_all(rows) == IF Len(rows) = 1 THEN rows[1] ELSE MultiLineString(rows)

\* g.length
RECURSIVE Length(_)
Length(coords) ==
    IF Len(coords) < 2 THEN 0
    ELSE Abs(coords[2][1] - coords[1][1]) + Abs(coords[2][2] - coords[1][2])
            + Length(Tail(coords))

\* max(list(merged.geoms), key=lambda g: g.length): the first longest part
Longest(geoms) ==
    geoms[CHOOSE m \in DOMAIN geoms :
            /\ \A j \in DOMAIN geoms : Length(geoms[j].coords) <= Length(geoms[m].coords)
            /\ \A j \in 1..(m - 1) : Length(geoms[j].coords) < Length(geoms[m].coords)]

\* idx = int(len(coords) * 0.6)
ArrowIndex(n) == (n * 6) \div 10

\* add_route_arrow(ax, gdf_route, color); coords[k] of the code is
\* coords[k + 1] here
AddRouteArrow ==
    /\ pc = "arrow"
    /\ IF gdf_route = None
       THEN arrow' = [drawn |-> FALSE] /\ pc' = "arrow_done"
       ELSE IF gdf_route.geometry = <<>>
       THEN arrow' = [drawn |-> FALSE] /\ pc' = "arrow_done"
       ELSE LET union == union_all(gdf_route.geometry)
                merged_geom == IF union.geom_type = "MultiLineString"
                               THEN Longest(union.geoms) ELSE union
            IN  IF merged_geom.geom_type # "LineString"
                THEN arrow' = [drawn |-> FALSE] /\ pc' = "arrow_done"
                ELSE LET coords == merged_geom.coords
                         idx == ArrowIndex(Len(coords))
                     IN  IF Len(coords) < 2
                         THEN arrow' = [drawn |-> FALSE] /\ pc' = "arrow_done"
                         ELSE IF idx + 1 > Len(coords) - 1
                         THEN arrow' = Raised("IndexError") /\ pc' = "arrow_failed"
                         ELSE /\ arrow' = [drawn |-> TRUE,
                                           xytext |-> coords[idx + 1],
                                           xy |-> coords[idx + 2],
                                           color |-> color]
                              /\ pc' = "arrow_done"
    /\ UNCHANGED <<mergeVars, sectorVars, noiseVars, facadeVars, emissionVars,
                   resolveVars, labelVars, view_texts, gdf_route, color,
                   site_point, labels, label_i, placed, place_texts>>

\* the colours of the ingress and of the egress route
RouteColors == {"#e74c3c", "#27ae60"}

InitArrow ==
    /\ gdf_route \in Routes
    /\ color \in RouteColors
    /\ arrow = <<>>
    /\ pc = "arrow"
    /\ view_texts = <<>>
    /\ site_point = <<0, 0>>
    /\ labels = <<>>
    /\ label_i = 1
    /\ placed = <<>>
    /\ place_texts = <<>>
    /\ ViewIdle
    /\ SectorIdle
    /\ NoiseIdle
    /\ FacadeIdle
    /\ EmissionIdle
    /\ ResolveIdle
    /\ LabelIdle

NextArrow == AddRouteArrow

SpecArrow == InitArrow /\ [][NextArrow]_vars

\* the part of the route the arrow is drawn on
ArrowLine ==
    LET union == union_all(gdf_route.geometry)
    IN  IF union.geom_type = "MultiLineString" THEN Longest(union.geoms) ELSE union

\* C29: for every route geometry that passes the guards of add_route_arrow
\* (a LineString with n >= 2 coordinates) both arrow endpoints are valid
\* positions of the coordinate list: with idx = int(n * 0.6), 0 <= idx and
\* idx + 1 <= n - 1, so drawing the arrow never indexes out of range.
CE_C29 ==
    (/\ pc # "arrow"
     /\ gdf_route # None
     /\ gdf_route.geometry # <<>>
     /\ Len(ArrowLine.coords) >= 2) =>
            /\ 0 <= ArrowIndex(Len(ArrowLine.coords))
            /\ ArrowIndex(Len(ArrowLine.coords)) + 1 <= Len(ArrowLine.coords) - 1
            /\ pc = "arrow_done"
            /\ arrow.drawn

----------------------------------------------------------------------------
(* Surrounding Amenities: PLACE LABELS and DRAW PLACE LABELS                *)
(* Coordinates are whole metres; a distance is compared through its square. *)

\* at most this many rows in a fetched label table
MaxLabels == 3

\* labels.head(24)
LABEL_LIMIT == 24

\* if p.distance(site_point) < 140
SiteClearance == 140

\* if any(p.distance(pp) < 120 for pp in placed)
LabelSpacing == 120

offsets == <<<<0, 35>>, <<0, -35>>, <<35, 0>>, <<-35, 0>>, <<25, 25>>, <<-25, 25>>>>

\* p.distance(q) < r
Closer(p, q, r) ==
    (p[1] - q[1]) * (p[1] - q[1]) + (p[2] - q[2]) * (p[2] - q[2]) < r * r

\* the row has a label (dropna(subset=["label"]))
HasLabel(row) == row.label.kind = "str"

\* drop_duplicates("label"): the first row of every label is kept
RECURSIVE drop_duplicates(_)
drop_duplicates(table) ==
    IF table = <<>> THEN <<>>
    ELSE LET kept == drop_duplicates(SubSeq(table, 1, Len(table) - 1))
             last == table[Len(table)]
         IN  IF \E j \in DOMAIN kept : kept[j].label = last.label
             THEN kept
             ELSE Append(kept, last)

\* a variant of head that keeps one row more
head_plus(table, n) == SubSeq(table, 1, Min2(n + 1, Len(table)))

\* head(n)
head(table, n) == SubSeq(table, 1, Min2(n, Len(table)))

\* labels = labels.dropna(subset=["label"]).drop_duplicates("label").head(24)
PrepareLabels ==
    /\ pc = "labels_fetched"
    /\ labels' = head(drop_duplicates(SelectSeq(labels, HasLabel)), LABEL_LIMIT)
    /\ pc' = "place_labels"
    /\ UNCHANGED <<mergeVars, sectorVars, noiseVars, facadeVars, emissionVars,
                   resolveVars, labelVars, view_texts, gdf_route, color, arrow,
                   site_point, label_i, placed, place_texts>>

\* one iteration of: for i, (_, row) in enumerate(labels.iterrows());
\* the code's i is label_i - 1
PlaceStep ==
    /\ pc = "place_labels"
    /\ label_i <= Len(labels)
    /\ LET p == labels[label_i].p
           off == offsets[((label_i - 1) % Len(offsets)) + 1]
       IN  IF Closer(p, site_point, SiteClearance)
           THEN UNCHANGED <<placed, place_texts>>
           ELSE IF \E pp \in DOMAIN placed : Closer(p, placed[pp], LabelSpacing)
           THEN UNCHANGED <<placed, place_texts>>
           ELSE /\ place_texts' = Append(place_texts,
                                         [x |-> p[1] + off[1], y |-> p[2] + off[2],
                                          label |-> labels[label_i].label])
                /\ placed' = Append(placed, p)
    /\ label_i' = label_i + 1
    /\ UNCHANGED <<viewVars, sectorVars, noiseVars, facadeVars, emissionVars,
                   resolveVars, labelVars, view_texts, gdf_route, color, arrow,
                   site_point, labels>>

\* the end of the loop; the info box follows
PlaceEnd ==
    /\ pc = "place_labels"
    /\ label_i > Len(labels)
    /\ pc' = "labels_drawn"
    /\ UNCHANGED <<mergeVars, sectorVars, noiseVars, scriptVars>>

\* representative points of the fetched places, around a site at the origin
PlacePoints == {<<0, 139>>, <<0, 140>>, <<120, 140>>, <<119, 140>>}

\* distinct place names
PlaceNames ==
    <<"A", "B", "C", "D", "E", "F", "G", "H", "I", "J", "K", "L", "M",
      "N", "O", "P", "Q", "R", "S", "T", "U", "V", "W", "X", "Y", "Z">>

\* the rows a fetched table may hold; the label column is already filled
\* from name:en and name, and is NaN where both are missing
LabelRows ==
    {[label |-> l, p |-> q] : l \in {NaN, Text(PlaceNames[1]), Text(PlaceNames[2])},
                              q \in PlacePoints}

\* a table of more than LABEL_LIMIT distinct names, LabelSpacing apart along
\* a street, behind one unnamed place
LongTable ==
    <<[label |-> NaN, p |-> <<0, 140>>]>>
        \o [k \in 1..Len(PlaceNames) |->
              [label |-> Text(PlaceNames[k]), p |-> <<LabelSpacing * (k - 1), 140>>]]

InitPlace ==
    /\ labels \in SeqsUpTo(LabelRows, MaxLabels) \cup {LongTable}
    /\ site_point \in {<<0, 0>>, <<0, -1>>}
    /\ label_i = 1
    /\ placed = <<>>
    /\ place_texts = <<>>
    /\ pc = "labels_fetched"
    /\ view_texts = <<>>
    /\ gdf_route = <<>>
    /\ color = "none"
    /\ arrow = <<>>
    /\ ViewIdle
    /\ SectorIdle
    /\ NoiseIdle
    /\ FacadeIdle
    /\ EmissionIdle
    /\ ResolveIdle
    /\ LabelIdle

NextPlace ==
    \/ PrepareLabels
    \/ PlaceStep
    \/ PlaceEnd

SpecPlace == InitPlace /\ [][NextPlace]_vars

\* the placed anchors keep their distances and their number
PlacedApart ==
    /\ \A a, b \in DOMAIN placed :
          a # b => ~Closer(placed[a], placed[b], LabelSpacing)
    /\ \A a \in DOMAIN placed : ~Closer(placed[a], site_point, SiteClearance)
    /\ Len(placed) <= LABEL_LIMIT
    /\ Len(place_texts) = Len(placed)

\* an iteration handles the next candidate of the table, and either places
\* it or skips it
PlaceOnce ==
    (pc = "place_labels" /\ label_i <= Len(labels)) =>
        /\ label_i' = label_i + 1
        /\ labels' = labels
        /\ \/ placed' = Append(placed, labels[label_i].p)
           \/ placed' = placed
        /\ Len(placed') <= label_i

\* C30: in the place-label loop, after any number of iterations, all anchor
\* points in the placed list are pairwise at least 120 m apart, every placed
\* anchor is at least 140 m from the site point, every candidate label is
\* either placed or skipped exactly once in input order, and at most 24
\* labels are placed.
Thm_C30 == []PlacedApart /\ [][PlaceOnce]_vars

\* the loop has ended over a table cut to 24 rows with every row placed
Wit_C30 ==
    /\ pc = "labels_drawn"
    /\ Len(labels) = LABEL_LIMIT
    /\ Len(placed) = LABEL_LIMIT

====
